---- MODULE Spec2Model ----
(***************************************************************************)
(* A model of pb-math-service: the lock manager and the timeout wrapper of *)
(* utils/locks.js, the error responder of utils/sendErrorHandler.js and    *)
(* the request handlers of the /latex, /mathml, /asciimath and /speechtext *)
(* routes, the base64 handling of utils/index.js, the cache keys, the      *)
(* engine manager and the compositor of services/mathJaxConverters.js, and *)
(* the response cache of middleware/cache.js.                              *)
(***************************************************************************)
EXTENDS Integers, Sequences, FiniteSets, TLC

VARIABLES
  \* --- clients of one Mutex (utils/locks.js) ---
  lock,        \* the Mutex under test: [locked, queue]
  caller,      \* per caller: state of its acquire() call
  nextTicket,  \* arrival order of acquire() calls
  nGrants,     \* number of resolve() calls made by the Mutex
  nReleases,   \* number of release() calls
  \* --- callers of withTimeout (utils/locks.js) ---
  call,        \* per call: the operation, the timer and the race
  effects,     \* shared state written by operations that completed
  \* --- the service: requests in flight on the four routes ---
  inBand,              \* config.errors.alwaysSendImageOrSpeechOnError
  req,                 \* per request: the route and the query parameters
  pc,                  \* per request: the await its handler is suspended at
  mathJaxLock,         \* the Mutex that guards the rendering engine
  imageConverterLock,  \* the Mutex that guards the raster converter
  wEng,                \* per request: its engine operation and the race
  wConv,               \* per request: its converter operation and the race
  res,                 \* per request: the Express response
  newSvg,              \* per request: the handler's variable newSvg
  svgCache,            \* keys of svgCache in services/mathJaxConverters.js
  \* --- functions of the service applied to one input ---
  arg,         \* the input
  result,      \* <<what the function returned>>, <<>> before the call
  \* --- the engine manager (services/mathJaxConverters.js) ---
  currentPackageSignature,  \* signature of the last completed initialization
  MathJax,     \* global.MathJax: the initialization that built it
  inits,       \* the calls of configureMathJax: packages and outcome
  job,         \* per engine job: its packages and where it stands
  overlapped,  \* some job started before earlier work had finished
  \* --- the response cache (middleware/cache.js) and its clients ---
  responseCache,  \* the entries: <<URL, value>> pairs
  hits,           \* the module's counter hits
  misses,         \* the module's counter misses
  client,         \* per HTTP request: what it asks for and what it got
  lookups,        \* outcomes of responseCache.get since the last clear()
  lastWrite       \* per URL: the request that stored the entry, or 0

mutexVars == <<lock, caller, nextTicket, nGrants, nReleases>>
timeoutVars == <<call, effects>>
serviceVars == <<inBand, req, pc, mathJaxLock, imageConverterLock, wEng, wConv,
                 res, newSvg, svgCache>>
functionVars == <<arg, result>>
vars == <<lock, caller, nextTicket, nGrants, nReleases, call, effects,
          inBand, req, pc, mathJaxLock, imageConverterLock, wEng, wConv, res,
          newSvg, svgCache, arg, result,
          currentPackageSignature, MathJax, inits, job, overlapped,
          responseCache, hits, misses, client, lookups, lastWrite>>
engineVars == <<currentPackageSignature, MathJax, inits, job, overlapped>>
cacheVars == <<responseCache, hits, misses, client, lookups, lastWrite>>

\* what the steps of one part of the model leave alone
besidesMutex ==
  <<timeoutVars, serviceVars, functionVars, engineVars, cacheVars>>
besidesTimeout ==
  <<mutexVars, serviceVars, functionVars, engineVars, cacheVars>>
besidesService ==
  <<mutexVars, timeoutVars, functionVars, engineVars, cacheVars>>
besidesFunction ==
  <<mutexVars, timeoutVars, serviceVars, engineVars, cacheVars>>
besidesEngine ==
  <<mutexVars, timeoutVars, serviceVars, functionVars, cacheVars>>
besidesCache ==
  <<mutexVars, timeoutVars, serviceVars, functionVars, engineVars>>

(***************************************************************************)
(* Bounds                                                                  *)
(***************************************************************************)
NumCallers == 4
NumCalls == 2
NumReqs == 2
NumFormulas == 1

Callers == 1..NumCallers
Calls == 1..NumCalls

(***************************************************************************)
(* Mutex (utils/locks.js)                                                  *)
(***************************************************************************)
\* constructor(): queue = [], locked = false
Mutex == [locked |-> FALSE, queue |-> <<>>]

\* Array.prototype.shift on the waiter queue: the first element and the rest
shiftLast(q) == [item |-> q[Len(q)], rest |-> SubSeq(q, 1, Len(q) - 1)]

shift(q) == [item |-> Head(q), rest |-> Tail(q)]

\* acquire() without the assignment this.locked = true
acquireNoLock(m, p) ==
  IF ~m.locked
    THEN [m |-> m, wake |-> {p}]
    ELSE [m |-> [m EXCEPT !.queue = Append(@, p)], wake |-> {}]

\* acquire() by p: the mutex afterwards and the callers whose promise it
\* resolves
acquire(m, p) ==
  IF ~m.locked
    THEN [m |-> [m EXCEPT !.locked = TRUE], wake |-> {p}]
    ELSE [m |-> [m EXCEPT !.queue = Append(@, p)], wake |-> {}]

\* release() that frees the lock and forgets the waiters
releaseNoHandoff(m) == [m |-> [m EXCEPT !.locked = FALSE], wake |-> {}]

\* release(): the mutex afterwards and the callers whose promise it resolves
release(m) ==
  IF Len(m.queue) > 0
    THEN [m |-> [m EXCEPT !.queue = shift(m.queue).rest],
          wake |-> {shift(m.queue).item}]
    ELSE [m |-> [m EXCEPT !.locked = FALSE], wake |-> {}]

(***************************************************************************)
(* Clients of one Mutex: every caller calls acquire() once and, once its   *)
(* acquire() has resolved, release() once.                                 *)
(***************************************************************************)
NewCaller == [st |-> "idle", ticket |-> 0, waited |-> FALSE, grants |-> 0]

\* the callers woken by the mutex become holders
Granted(c, wake) ==
  [q \in Callers |->
     IF q \in wake
       THEN [c[q] EXCEPT !.st = "holding", !.grants = @ + 1]
       ELSE c[q]]

MutexIdle ==
  /\ lock = Mutex
  /\ caller = [p \in Callers |-> NewCaller]
  /\ nextTicket = 1
  /\ nGrants = 0
  /\ nReleases = 0

CallAcquire(p) ==
  /\ caller[p].st = "idle"
  /\ LET r == acquire(lock, p)
         c == [caller EXCEPT ![p] = [@ EXCEPT !.st = "waiting",
                                                !.ticket = nextTicket,
                                                !.waited = p \notin r.wake]]
     IN /\ lock' = r.m
        /\ caller' = Granted(c, r.wake)
        /\ nGrants' = nGrants + Cardinality(r.wake)
  /\ nextTicket' = nextTicket + 1
  /\ UNCHANGED nReleases

CallRelease(p) ==
  /\ caller[p].st = "holding"
  /\ LET r == release(lock)
         c == [caller EXCEPT ![p] = [@ EXCEPT !.st = "released"]]
     IN /\ lock' = r.m
        /\ caller' = Granted(c, r.wake)
        /\ nGrants' = nGrants + Cardinality(r.wake)
  /\ nReleases' = nReleases + 1
  /\ UNCHANGED nextTicket

(***************************************************************************)
(* withTimeout (utils/locks.js)                                            *)
(***************************************************************************)
\* a race in which the last input to settle decides
settleLast(race, outcome) == outcome

\* Promise.race: the first input to settle decides, later ones are ignored
settle(race, outcome) == IF race = "pending" THEN outcome ELSE race

\* withTimeout(promise, timeoutMs): the operation runs, the timer is armed
withTimeout == [op |-> "pending", timer |-> "armed", race |-> "pending"]

\* the operation fulfils ("value") or rejects ("error")
opSettles(w, outcome) ==
  [w EXCEPT !.op = outcome, !.race = settle(w.race, outcome)]

\* setTimeout's callback rejects with 'Operation timed out'
timerFires(w) ==
  [w EXCEPT !.timer = "fired", !.race = settle(w.race, "timeout")]

(***************************************************************************)
(* Callers of withTimeout: each call wraps an operation that writes to the *)
(* shared state when it completes; the caller awaits the race.             *)
(***************************************************************************)
NewCall == [w |-> withTimeout, first |-> "none", delivered |-> 0,
            result |-> "none"]

TimeoutIdle ==
  /\ call = [c \in Calls |-> NewCall]
  /\ effects = {}

OpSettles(c) ==
  /\ call[c].w.op = "pending"
  /\ \E outcome \in {"value", "error"} :
       /\ call' = [call EXCEPT ![c] =
                     [@ EXCEPT !.w = opSettles(@, outcome),
                               !.first = IF @ = "none" THEN "op" ELSE @]]
       /\ effects' = IF outcome = "value" THEN effects \cup {c} ELSE effects

TimerFires(c) ==
  /\ call[c].w.timer = "armed"
  /\ call' = [call EXCEPT ![c] =
                [@ EXCEPT !.w = timerFires(@),
                          !.first = IF @ = "none" THEN "timer" ELSE @]]
  /\ UNCHANGED effects

\* the caller's continuation after await withTimeout(...)
Deliver(c) ==
  /\ call[c].w.race # "pending"
  /\ call[c].result # call[c].w.race
  /\ call' = [call EXCEPT ![c] = [@ EXCEPT !.delivered = @ + 1,
                                           !.result = call[c].w.race]]
  /\ UNCHANGED effects

(***************************************************************************)
(* Strings: a string is the sequence of its characters.  Chars gives the   *)
(* characters of the string literals of the source.                        *)
(***************************************************************************)
Chars ==
  ("Missing required parameter(s)" :>
       <<"M", "i", "s", "s", "i", "n", "g", " ", "r", "e", "q", "u", "i",
         "r", "e", "d", " ", "p", "a", "r", "a", "m", "e", "t", "e", "r",
         "(", "s", ")">>)
  @@ ("Invalid base64 string" :>
       <<"I", "n", "v", "a", "l", "i", "d", " ", "b", "a", "s", "e", "6",
         "4", " ", "s", "t", "r", "i", "n", "g">>)
  @@ ("Formula is required" :>
       <<"F", "o", "r", "m", "u", "l", "a", " ", "i", "s", " ", "r", "e",
         "q", "u", "i", "r", "e", "d">>)
  @@ ("Invalid chunkIndex parameter" :>
       <<"I", "n", "v", "a", "l", "i", "d", " ", "c", "h", "u", "n", "k",
         "I", "n", "d", "e", "x", " ", "p", "a", "r", "a", "m", "e", "t",
         "e", "r">>)
  @@ ("svgFromTeX request timed out" :>
       <<"s", "v", "g", "F", "r", "o", "m", "T", "e", "X", " ", "r", "e",
         "q", "u", "e", "s", "t", " ", "t", "i", "m", "e", "d", " ", "o",
         "u", "t">>)
  @@ ("svgFromMathML request timed out" :>
       <<"s", "v", "g", "F", "r", "o", "m", "M", "a", "t", "h", "M", "L",
         " ", "r", "e", "q", "u", "e", "s", "t", " ", "t", "i", "m", "e",
         "d", " ", "o", "u", "t">>)
  @@ ("pngFromSvg request timed out" :>
       <<"p", "n", "g", "F", "r", "o", "m", "S", "v", "g", " ", "r", "e",
         "q", "u", "e", "s", "t", " ", "t", "i", "m", "e", "d", " ", "o",
         "u", "t">>)
  @@ ("Internal server error" :>
       <<"I", "n", "t", "e", "r", "n", "a", "l", " ", "s", "e", "r", "v",
         "e", "r", " ", "e", "r", "r", "o", "r">>)
  @@ ("Error processing math" :>
       <<"E", "r", "r", "o", "r", " ", "p", "r", "o", "c", "e", "s", "s",
         "i", "n", "g", " ", "m", "a", "t", "h">>)
  @@ ("Bad Request" :>
       <<"B", "a", "d", " ", "R", "e", "q", "u", "e", "s", "t">>)
  @@ ("One of \"asciimath\", \"latex\", or \"mathml\" parameter is required." :>
       <<"O", "n", "e", " ", "o", "f", " ", "\"", "a", "s", "c", "i", "i",
         "m", "a", "t", "h", "\"", ",", " ", "\"", "l", "a", "t", "e",
         "x", "\"", ",", " ", "o", "r", " ", "\"", "m", "a", "t", "h",
         "m", "l", "\"", " ", "p", "a", "r", "a", "m", "e", "t", "e", "r",
         " ", "i", "s", " ", "r", "e", "q", "u", "i", "r", "e", "d", ".">>)
  @@ ("Error: " :>
       <<"E", "r", "r", "o", "r", ":", " ">>)
  @@ ("..." :>
       <<".", ".", ".">>)
  @@ ("Missing required parameter" :>
       <<"M", "i", "s", "s", "i", "n", "g", " ", "r", "e", "q", "u", "i",
         "r", "e", "d", " ", "p", "a", "r", "a", "m", "e", "t", "e", "r">>)
  @@ ("Invalid speech options" :>
       <<"I", "n", "v", "a", "l", "i", "d", " ", "s", "p", "e", "e", "c",
         "h", " ", "o", "p", "t", "i", "o", "n", "s">>)
  @@ ("Invalid speech options provided." :>
       <<"I", "n", "v", "a", "l", "i", "d", " ", "s", "p", "e", "e", "c",
         "h", " ", "o", "p", "t", "i", "o", "n", "s", " ", "p", "r", "o",
         "v", "i", "d", "e", "d", ".">>)
  @@ ("/latex" :>
       <<"/", "l", "a", "t", "e", "x">>)
  @@ ("/mathml" :>
       <<"/", "m", "a", "t", "h", "m", "l">>)
  @@ ("/asciimath" :>
       <<"/", "a", "s", "c", "i", "i", "m", "a", "t", "h">>)
  @@ ("/speechtext" :>
       <<"/", "s", "p", "e", "e", "c", "h", "t", "e", "x", "t">>)
  @@ ("?" :>
       <<"?">>)
  @@ ("" :>
       <<>>)
  @@ ("ref=/speechtext" :>
       <<"r", "e", "f", "=", "/", "s", "p", "e", "e", "c", "h", "t", "e",
         "x", "t">>)
  @@ ("ref=/SpeechText" :>
       <<"r", "e", "f", "=", "/", "S", "p", "e", "e", "c", "h", "T", "e",
         "x", "t">>)
  @@ ("Invalid engine: '" :>
       <<"I", "n", "v", "a", "l", "i", "d", " ", "e", "n", "g", "i", "n",
         "e", ":", " ", "'">>)
  @@ ("'. Must be 'mathcat' or 'sre'" :>
       <<"'", ".", " ", "M", "u", "s", "t", " ", "b", "e", " ", "'", "m",
         "a", "t", "h", "c", "a", "t", "'", " ", "o", "r", " ", "'", "s",
         "r", "e", "'">>)
  @@ ("Invalid style '" :>
       <<"I", "n", "v", "a", "l", "i", "d", " ", "s", "t", "y", "l", "e",
         " ", "'">>)
  @@ ("' for " :>
       <<"'", " ", "f", "o", "r", " ">>)
  @@ (". Valid styles: " :>
       <<".", " ", "V", "a", "l", "i", "d", " ", "s", "t", "y", "l", "e",
         "s", ":", " ">>)
  @@ ("Invalid verbosity '" :>
       <<"I", "n", "v", "a", "l", "i", "d", " ", "v", "e", "r", "b", "o",
         "s", "i", "t", "y", " ", "'">>)
  @@ (". Valid: " :>
       <<".", " ", "V", "a", "l", "i", "d", ":", " ">>)
  @@ (" " :>
       <<" ">>)
  @@ (", " :>
       <<",", " ">>)
  @@ ("mathcat" :>
       <<"m", "a", "t", "h", "c", "a", "t">>)
  @@ ("sre" :>
       <<"s", "r", "e">>)
  @@ ("invalidengine" :>
       <<"i", "n", "v", "a", "l", "i", "d", "e", "n", "g", "i", "n", "e">>)
  @@ ("ClearSpeak" :>
       <<"C", "l", "e", "a", "r", "S", "p", "e", "a", "k">>)
  @@ ("SimpleSpeak" :>
       <<"S", "i", "m", "p", "l", "e", "S", "p", "e", "a", "k">>)
  @@ ("MathSpeak" :>
       <<"M", "a", "t", "h", "S", "p", "e", "a", "k">>)
  @@ ("invalidstyle" :>
       <<"i", "n", "v", "a", "l", "i", "d", "s", "t", "y", "l", "e">>)
  @@ ("Verbose" :>
       <<"V", "e", "r", "b", "o", "s", "e">>)
  @@ ("Medium" :>
       <<"M", "e", "d", "i", "u", "m">>)
  @@ ("Terse" :>
       <<"T", "e", "r", "s", "e">>)
  @@ ("Superbrief" :>
       <<"S", "u", "p", "e", "r", "b", "r", "i", "e", "f">>)
  @@ ("sbrief" :>
       <<"s", "b", "r", "i", "e", "f">>)
  @@ ("Explicit" :>
       <<"E", "x", "p", "l", "i", "c", "i", "t">>)
  @@ ("invalidverbosity" :>
       <<"i", "n", "v", "a", "l", "i", "d", "v", "e", "r", "b", "o", "s",
         "i", "t", "y">>)
  @@ ("clearspeak" :>
       <<"c", "l", "e", "a", "r", "s", "p", "e", "a", "k">>)
  @@ ("simplespeak" :>
       <<"s", "i", "m", "p", "l", "e", "s", "p", "e", "a", "k">>)
  @@ ("mathspeak" :>
       <<"m", "a", "t", "h", "s", "p", "e", "a", "k">>)
  @@ ("verbose" :>
       <<"v", "e", "r", "b", "o", "s", "e">>)
  @@ ("medium" :>
       <<"m", "e", "d", "i", "u", "m">>)
  @@ ("terse" :>
       <<"t", "e", "r", "s", "e">>)
  @@ ("auto" :>
       <<"a", "u", "t", "o">>)
  @@ ("explicit" :>
       <<"e", "x", "p", "l", "i", "c", "i", "t">>)
  @@ ("brief" :>
       <<"b", "r", "i", "e", "f">>)
  @@ ("superbrief" :>
       <<"s", "u", "p", "e", "r", "b", "r", "i", "e", "f">>)
  @@ ("clearspeak, simplespeak" :>
       <<"c", "l", "e", "a", "r", "s", "p", "e", "a", "k", ",", " ", "s",
         "i", "m", "p", "l", "e", "s", "p", "e", "a", "k">>)
  @@ ("clearspeak, mathspeak" :>
       <<"c", "l", "e", "a", "r", "s", "p", "e", "a", "k", ",", " ", "m",
         "a", "t", "h", "s", "p", "e", "a", "k">>)
  @@ ("verbose, medium, terse" :>
       <<"v", "e", "r", "b", "o", "s", "e", ",", " ", "m", "e", "d", "i",
         "u", "m", ",", " ", "t", "e", "r", "s", "e">>)
  @@ ("auto, explicit" :>
       <<"a", "u", "t", "o", ",", " ", "e", "x", "p", "l", "i", "c", "i",
         "t">>)
  @@ ("verbose, brief, sbrief" :>
       <<"v", "e", "r", "b", "o", "s", "e", ",", " ", "b", "r", "i", "e",
         "f", ",", " ", "s", "b", "r", "i", "e", "f">>)
  @@ ("true" :>
       <<"t", "r", "u", "e">>)
  @@ ("1" :>
       <<"1">>)
  @@ ("yes" :>
       <<"y", "e", "s">>)
  @@ ("on" :>
       <<"o", "n">>)
  @@ ("True" :>
       <<"T", "r", "u", "e">>)
  @@ ("0" :>
       <<"0">>)
  @@ ("no" :>
       <<"n", "o">>)
  @@ ("&amp;" :>
       <<"&", "a", "m", "p", ";">>)
  @@ ("&lt;" :>
       <<"&", "l", "t", ";">>)
  @@ ("&gt;" :>
       <<"&", "g", "t", ";">>)
  @@ ("&quot;" :>
       <<"&", "q", "u", "o", "t", ";">>)
  @@ ("&#x27;" :>
       <<"&", "#", "x", "2", "7", ";">>)
  @@ ("MathJax error" :>
       <<"M", "a", "t", "h", "J", "a", "x", " ", "e", "r", "r", "o", "r">>)
  @@ ("SRE error" :>
       <<"S", "R", "E", " ", "e", "r", "r", "o", "r">>)

\* String.prototype.includes
includes(s, pat) ==
  \E i \in 0..(Len(s) - Len(pat)) : SubSeq(s, i + 1, i + Len(pat)) = pat

\* String.prototype.startsWith
startsWith(s, pat) ==
  Len(s) >= Len(pat) /\ SubSeq(s, 1, Len(pat)) = pat

UpperCase == <<"A", "B", "C", "D", "E", "F", "G", "H", "I", "J", "K", "L", "M",
               "N", "O", "P", "Q", "R", "S", "T", "U", "V", "W", "X", "Y", "Z">>
LowerCase == <<"a", "b", "c", "d", "e", "f", "g", "h", "i", "j", "k", "l", "m",
               "n", "o", "p", "q", "r", "s", "t", "u", "v", "w", "x", "y", "z">>

\* String.prototype.toLowerCase
toLowerCase(s) ==
  [i \in 1..Len(s) |->
     IF \E k \in 1..26 : UpperCase[k] = s[i]
       THEN LowerCase[CHOOSE k \in 1..26 : UpperCase[k] = s[i]]
       ELSE s[i]]

(***************************************************************************)
(* sendError (utils/sendErrorHandler.js)                                   *)
(***************************************************************************)
\* getRouteType(req): "speech" when the request URL mentions /speechtext
getRouteType(originalUrl) ==
  IF includes(toLowerCase(originalUrl), Chars["/speechtext"])
    THEN "speech"
    ELSE "math"

\* the chain of .replace() calls that escapes XML special characters
escapeXml(s) ==
  LET esc(c) == CASE c = "&"  -> Chars["&amp;"]
                  [] c = "<"  -> Chars["&lt;"]
                  [] c = ">"  -> Chars["&gt;"]
                  [] c = "\"" -> Chars["&quot;"]
                  [] c = "'"  -> Chars["&#x27;"]
                  [] OTHER    -> <<c>>
      F[i \in 0..Len(s)] == IF i = 0 THEN <<>> ELSE F[i - 1] \o esc(s[i])
  IN F[Len(s)]

MaxMessageLength == 30
TruncatedLength == 27

\* createErrorSvg(errorMessage): the caption of the error graphic, truncated
\* to 30 characters and escaped
createErrorSvg(errorMessage) ==
  LET msg == IF errorMessage = <<>> THEN Chars["Error processing math"]
                                    ELSE errorMessage
      truncatedMessage ==
        IF Len(msg) > MaxMessageLength
          THEN SubSeq(msg, 1, TruncatedLength) \o Chars["..."]
          ELSE msg
  IN [kind |-> "errorSvg", text |-> escapeXml(truncatedMessage)]

(***************************************************************************)
(* The response object of a request (Express res)                          *)
(***************************************************************************)
NoBody == [kind |-> "none", text |-> <<>>]

\* ctype holds the media type of the Content-Type header

\* statusCode, the headers set so far, and what went out on the wire
NewRes == [statusCode |-> 200, ctype |-> "", cc |-> "", errHeader |-> <<>>,
           sent |-> FALSE, wireStatus |-> 0, body |-> NoBody,
           attempts |-> 0, origin |-> "", givenStatus |-> 0]

\* an operation on res: the response afterwards, and whether it threw
Ok(r) == [res |-> r, threw |-> FALSE]
Threw(r) == [res |-> r, threw |-> TRUE]

\* res.set(...) of Content-Type and Cache-Control followed by res.send(data):
\* setting a header after the response was sent throws
sendWith(r, ctype, cc, data, origin) ==
  LET a == [r EXCEPT !.attempts = @ + 1]
  IN IF r.sent
       THEN Threw(a)
       ELSE Ok([a EXCEPT !.ctype = ctype, !.cc = cc, !.sent = TRUE,
                         !.wireStatus = r.statusCode, !.body = data,
                         !.origin = origin])

\* res.status(status).json(obj): the status is assigned, then sending after
\* the response was sent throws
statusJson(r, status, data, origin) ==
  LET a == [r EXCEPT !.attempts = @ + 1, !.statusCode = status]
  IN IF r.sent
       THEN Threw(a)
       ELSE Ok([a EXCEPT !.ctype = IF r.ctype = "" THEN "application/json"
                                                   ELSE r.ctype,
                         !.sent = TRUE, !.wireStatus = status,
                         !.body = data, !.origin = origin])

\* the in-band branch of sendError: an artifact of the route's content type
sendErrorInBand(originalUrl, r, status, error) ==
  LET out == IF getRouteType(originalUrl) = "speech"
               THEN sendWith(r, "text/plain",
                             "no-cache, no-store, must-revalidate",
                             [kind |-> "text",
                              text |-> Chars["Error: "] \o error],
                             "sendError")
               ELSE sendWith(r, "image/svg+xml",
                             "no-cache, no-store, must-revalidate",
                             createErrorSvg(error), "sendError")
  IN IF out.threw
       THEN out
       ELSE Ok([out.res EXCEPT !.statusCode = 200, !.wireStatus = 200,
                               !.errHeader = error, !.givenStatus = status])

\* the structured branch of sendError: the given status and a JSON body
sendErrorJson(r, status, error, message) ==
  LET out == statusJson(r, status,
                        [kind |-> "json", text |-> error, message |-> message],
                        "sendError")
  IN IF out.threw
       THEN out
       ELSE Ok([out.res EXCEPT !.givenStatus = status])

\* sendError that answers in-band whatever the configuration says
sendErrorIgnoresFlag(flag, originalUrl, r, status, error, message) ==
  sendErrorInBand(originalUrl, r, status, error)

\* sendError(req, res, status, error, message) under
\* config.errors.alwaysSendImageOrSpeechOnError = flag
sendError(flag, originalUrl, r, status, error, message) ==
  IF flag
    THEN sendErrorInBand(originalUrl, r, status, error)
    ELSE sendErrorJson(r, status, error, message)

\* errorHandler(err, req, res, next) of middleware/errorHandler.js
errorHandler(r, errMessage) ==
  statusJson(r, 500, [kind |-> "json", text |-> errMessage,
                      message |-> "status"], "errorHandler")

(***************************************************************************)
(* Requests                                                                *)
(***************************************************************************)
Reqs == 1..NumReqs
Formulas == 1..NumFormulas

ImageRoutes == {"latex", "mathml", "asciimath"}
Routes == ImageRoutes \cup {"speechtext"}

\* req.originalUrl: the mount path and the query string; extra is a query
\* parameter that no handler reads
originalUrl(q) ==
  (CASE q.route = "latex" -> Chars["/latex"]
     [] q.route = "mathml" -> Chars["/mathml"]
     [] q.route = "asciimath" -> Chars["/asciimath"]
     [] q.route = "speechtext" -> Chars["/speechtext"])
  \o Chars["?"] \o Chars[q.extra]

\* toBool(v) of utils/index.js on a query value
toBool(v) ==
  /\ v # "undefined"
  /\ toLowerCase(Chars[v]) \in {Chars["true"], Chars["1"], Chars["yes"], Chars["on"]}

\* The shapes of a formula parameter: absent, "", four blanks, text that
\* is not base64, base64 of a formula, base64 of white space
FormulaShapes == {"undefined", "empty", "blank", "text", "b64", "b64blank"}

\* isBase64(str) after urlSafeBase64ToBase64: the regular expression accepts
isBase64(shape) == shape \in {"blank", "b64", "b64blank"}

\* processFormula(req, res, formula): the error it answers with ("" if none)
\* and the formula it returns ("text", "" or "null")
processFormula(q) ==
  LET decode == toBool(q.isBase64) /\ q.formula \notin {"undefined", "empty"}
      invalid == decode /\ ~isBase64(q.formula)
      \* the formula after the optional decoding and trim
      shape == IF decode
                 THEN (IF q.formula \in {"blank", "b64blank"} THEN "empty" ELSE "text")
                 ELSE q.formula
  IN IF invalid
       THEN [error |-> "Invalid base64 string", formula |-> "null"]
       ELSE IF shape \in {"undefined", "empty"}
         THEN [error |-> "Formula is required", formula |-> "null"]
         ELSE [error |-> "",
               formula |-> IF shape = "blank" THEN "" ELSE "text"]

\* parseInt(chunkIndex, 10) is NaN or negative
invalidChunkIndex(c) == c \in {"nan", "neg"}

(***************************************************************************)
(* Speech options (services/speechGenerators.js)                           *)
(***************************************************************************)
getDefaultVerbosity(engine, style) ==
  IF toLowerCase(engine) = Chars["sre"]
    THEN (IF toLowerCase(style) = Chars["mathspeak"]
            THEN Chars["Verbose"]
            ELSE Chars["Explicit"])
    ELSE Chars["Verbose"]

correctCasingForMathCAT(s) ==
  LET l == toLowerCase(s)
  IN CASE l = Chars["clearspeak"] -> Chars["ClearSpeak"]
       [] l = Chars["simplespeak"] -> Chars["SimpleSpeak"]
       [] l = Chars["verbose"] -> Chars["Verbose"]
       [] l = Chars["medium"] -> Chars["Medium"]
       [] l = Chars["terse"] -> Chars["Terse"]
       [] OTHER -> s

\* getSpeechOptionsFromQuery(query)
getSpeechOptionsFromQuery(q) ==
  LET engine == toLowerCase(IF q.engine = "undefined" THEN Chars["mathcat"]
                                                      ELSE Chars[q.engine])
      style == IF q.style = "undefined" THEN Chars["ClearSpeak"]
                                         ELSE Chars[q.style]
      verbosity == IF q.verbosity = "undefined"
                     THEN getDefaultVerbosity(engine, style)
                     ELSE Chars[q.verbosity]
  IN IF engine # Chars["sre"]
       THEN [engine |-> engine, style |-> correctCasingForMathCAT(style),
             verbosity |-> correctCasingForMathCAT(verbosity)]
       ELSE [engine |-> engine, style |-> style,
             verbosity |->
               IF /\ toLowerCase(style) = Chars["mathspeak"]
                  /\ toLowerCase(verbosity) = Chars["superbrief"]
                 THEN Chars["sbrief"]
                 ELSE verbosity]

\* validOptions[engine]: the styles and their verbosities, in lower case
validStyles(engine) ==
  IF engine = Chars["mathcat"]
    THEN {Chars["clearspeak"], Chars["simplespeak"]}
    ELSE IF engine = Chars["sre"]
      THEN {Chars["clearspeak"], Chars["mathspeak"]}
      ELSE {}

validVerbosities(engine, style) ==
  CASE engine = Chars["mathcat"] /\ style = Chars["clearspeak"] ->
         {Chars["verbose"]}
    [] engine = Chars["mathcat"] /\ style = Chars["simplespeak"] ->
         {Chars["verbose"], Chars["medium"], Chars["terse"]}
    [] engine = Chars["sre"] /\ style = Chars["clearspeak"] ->
         {Chars["auto"], Chars["explicit"]}
    [] engine = Chars["sre"] /\ style = Chars["mathspeak"] ->
         {Chars["verbose"], Chars["brief"], Chars["sbrief"]}
    [] OTHER -> {}

\* Object.keys(validOptions[engine]).join(', ')
validStylesText(engine) ==
  IF engine = Chars["mathcat"] THEN Chars["clearspeak, simplespeak"]
                               ELSE Chars["clearspeak, mathspeak"]

\* validOptions[engine][style].join(', ')
validVerbositiesText(engine, style) ==
  CASE engine = Chars["mathcat"] /\ style = Chars["clearspeak"] ->
         Chars["verbose"]
    [] engine = Chars["mathcat"] /\ style = Chars["simplespeak"] ->
         Chars["verbose, medium, terse"]
    [] engine = Chars["sre"] /\ style = Chars["clearspeak"] ->
         Chars["auto, explicit"]
    [] OTHER -> Chars["verbose, brief, sbrief"]

\* validateSpeechOptions(engine, style, verbosity)
validateSpeechOptions(engine, style, verbosity) ==
  LET engineLower == toLowerCase(engine)
      styleLower == toLowerCase(style)
  IN IF validStyles(engineLower) = {}
       THEN [valid |-> FALSE,
             error |-> Chars["Invalid engine: '"] \o engine
                         \o Chars["'. Must be 'mathcat' or 'sre'"]]
       ELSE IF styleLower \notin validStyles(engineLower)
         THEN [valid |-> FALSE,
               error |-> Chars["Invalid style '"] \o style \o Chars["' for "]
                           \o engine \o Chars[". Valid styles: "]
                           \o validStylesText(engineLower)]
         ELSE IF toLowerCase(verbosity)
                   \notin validVerbosities(engineLower, styleLower)
           THEN [valid |-> FALSE,
                 error |-> Chars["Invalid verbosity '"] \o verbosity
                             \o Chars["' for "] \o engine \o Chars[" "]
                             \o style \o Chars[". Valid: "]
                             \o validVerbositiesText(engineLower, styleLower)]
           ELSE [valid |-> TRUE, error |-> <<>>]

\* generateSpeechText(mml, options): the message of the error it throws on
\* invalid options (<<>> when the options are valid)
generateSpeechText(options) ==
  LET v == validateSpeechOptions(options.engine, options.style,
                                 options.verbosity)
  IN IF v.valid
       THEN <<>>
       ELSE IF options.engine = Chars["sre"]
         THEN Chars["Invalid speech options provided."]
         ELSE v.error

(***************************************************************************)
(* The handlers of the routes.  A step runs a handler from one await to    *)
(* the next.                                                               *)
(***************************************************************************)
BaseQuery(route) ==
  [route |-> route, dialect |-> "latex", formula |-> "text",
   isBase64 |-> "undefined", svg |-> "undefined",
   getChunkCount |-> "undefined", chunkIndex |-> "undefined", extra |-> "",
   engine |-> "undefined", style |-> "undefined", verbosity |-> "undefined",
   fid |-> 1]

\* a withTimeout call that was not made yet
NotStarted == [op |-> "none", timer |-> "off", race |-> "none"]

\* an operation awaited without withTimeout
Unguarded(op) == [op |-> op, timer |-> "off", race |-> "none"]

\* generateSvgCacheKey(input, type, options): getSvgCountFor* keeps the
\* scale option in the key, svgFrom* deletes it before
generateSvgCacheKey(q, withScale) ==
  <<IF q.route = "latex" THEN "tex" ELSE q.route, withScale, q.fid>>

\* the first check of the image routes: requiredParamsAreMissing, then
\* processFormula; error is what sendError is called with ("" if not called)
validateFormula(q) ==
  IF q.formula \in {"undefined", "empty"}
    THEN [stop |-> TRUE, error |-> "Missing required parameter(s)"]
    ELSE LET pf == processFormula(q)
         IN [stop |-> pf.formula \in {"null", ""}, error |-> pf.error]

\* the catch block that ends every image handler
outerCatch(q, r) ==
  sendError(inBand, originalUrl(q), r, 500, Chars["Internal server error"],
            "message and stack")

\* res.set('Content-Type', ...), res.set('Cache-Control', ...), res.send(data)
\* inside the handler's try block
respond(q, r, ctype, data) ==
  LET out == sendWith(r, ctype, "public, max-age=86400", data, "handler")
  IN IF out.threw THEN outerCatch(q, out.res) ELSE out

\* the handler returned, or its promise rejected
EndOf(out) == IF out.threw THEN "rejected" ELSE "done"

\* the program counters after a step of i that woke the given waiters
Goto(i, to, wakeEngine, wakeConverter) ==
  [j \in Reqs |->
     IF j = i THEN to
     ELSE IF j \in wakeEngine THEN "engHeld"
     ELSE IF j \in wakeConverter THEN "convHeld"
     ELSE pc[j]]

\* await mathJaxLock.acquire() by i
AcquireEngineLock(i) ==
  LET a == acquire(mathJaxLock, i)
  IN /\ mathJaxLock' = a.m
     /\ pc' = Goto(i, IF i \in a.wake THEN "engHeld" ELSE "engWait",
                   a.wake, {})

\* await imageConverterLock.acquire() by i, after the engine lock was
\* released and woke wakeEngine
AcquireConverterLock(i, wakeEngine) ==
  LET a == acquire(imageConverterLock, i)
  IN /\ imageConverterLock' = a.m
     /\ pc' = Goto(i, IF i \in a.wake THEN "convHeld" ELSE "convWait",
                   wakeEngine, a.wake)

\* the validation that opens the /latex, /mathml and /asciimath handlers;
\* TRUE when the handler stops there
Rejects(i) ==
  validateFormula(req[i]).stop
    \/ /\ req[i].route = "latex"
       /\ ~toBool(req[i].getChunkCount)
       /\ invalidChunkIndex(req[i].chunkIndex)

\* the response of a handler that stops in validation
Rejected(i) ==
  LET q == req[i]
      v == validateFormula(q)
  IN IF v.stop
       THEN (IF v.error = ""
               THEN res[i]
               ELSE sendError(inBand, originalUrl(q), res[i], 400,
                              Chars[v.error], "parameter is required").res)
       ELSE sendError(inBand, originalUrl(q), res[i], 400,
                      Chars["Invalid chunkIndex parameter"],
                      "chunkIndex must be a non-negative integer").res

\* router.get('/') of /latex and of /mathml, up to the first await
LockedRouteStart(i) ==
  /\ pc[i] = "new"
  /\ req[i].route \in {"latex", "mathml"}
  /\ IF Rejects(i)
       THEN /\ res' = [res EXCEPT ![i] = Rejected(i)]
            /\ pc' = Goto(i, "done", {}, {})
            /\ UNCHANGED <<mathJaxLock, wEng>>
       ELSE IF toBool(req[i].getChunkCount)
         THEN /\ wEng' = [wEng EXCEPT ![i] =
                   IF generateSvgCacheKey(req[i], TRUE) \in svgCache
                     THEN Unguarded("value")
                     ELSE Unguarded("pending")]
              /\ pc' = Goto(i, "countOp", {}, {})
              /\ UNCHANGED <<mathJaxLock, res>>
         ELSE /\ AcquireEngineLock(i)
              /\ UNCHANGED <<wEng, res>>
  /\ UNCHANGED <<inBand, req, imageConverterLock, wConv, newSvg, svgCache>>

\* the continuation of await getSvgCountForTeX / getSvgCountForMathML
CountResume(i) ==
  /\ pc[i] = "countOp"
  /\ wEng[i].op \in {"value", "error"}
  /\ LET out == IF wEng[i].op = "value"
                  THEN sendWith(res[i], "application/json", "",
                                [kind |-> "count", text |-> <<>>], "handler")
                  ELSE outerCatch(req[i], res[i])
     IN /\ res' = [res EXCEPT ![i] = out.res]
        /\ pc' = Goto(i, EndOf(out), {}, {})
  /\ UNCHANGED <<inBand, req, mathJaxLock, imageConverterLock, wEng, wConv,
                 newSvg, svgCache>>

\* withTimeout(svgFromTeX(...), 3000) once the engine lock is held: a
\* cached formula needs no engine call
EngineInvoke(i) ==
  /\ pc[i] = "engHeld"
  /\ IF generateSvgCacheKey(req[i], FALSE) \in svgCache
       THEN \E outcome \in {"value", "error"} :
              /\ outcome = "error" =>
                   req[i].route = "latex" /\ req[i].chunkIndex = "pos"
              /\ wEng' = [wEng EXCEPT ![i] = opSettles(withTimeout, outcome)]
       ELSE wEng' = [wEng EXCEPT ![i] = withTimeout]
  /\ pc' = Goto(i, "engRace", {}, {})
  /\ UNCHANGED <<inBand, req, mathJaxLock, imageConverterLock, wConv, res,
                 newSvg, svgCache>>

\* the engine operation of i settles; a rendering that succeeded is cached,
\* also when the chunk index then turns out to be out of range
EngineSettles(i) ==
  /\ wEng[i].op = "pending"
  /\ \E rendered \in BOOLEAN, outcome \in {"value", "error"} :
       /\ outcome = "value" => rendered
       /\ (outcome = "error" /\ rendered) =>
            /\ req[i].route = "latex"
            /\ req[i].chunkIndex = "pos"
            /\ ~toBool(req[i].getChunkCount)
       /\ wEng' = [wEng EXCEPT ![i] = opSettles(@, outcome)]
       /\ svgCache' =
            IF rendered /\ req[i].route # "speechtext"
              THEN svgCache \cup
                     {generateSvgCacheKey(req[i],
                                          toBool(req[i].getChunkCount)
                                            /\ req[i].route # "asciimath")}
              ELSE svgCache
  /\ UNCHANGED <<inBand, req, pc, mathJaxLock, imageConverterLock, wConv,
                 res, newSvg>>

\* the 3000 ms timer of the engine invocation fires before the operation
\* settled (a timer that fires afterwards changes nothing)
EngineTimeout(i) ==
  /\ pc[i] = "engRace"
  /\ wEng[i].timer = "armed"
  /\ wEng[i].race = "pending"
  /\ wEng' = [wEng EXCEPT ![i] = timerFires(@)]
  /\ UNCHANGED <<inBand, req, pc, mathJaxLock, imageConverterLock, wConv,
                 res, newSvg, svgCache>>

\* the engine section left with mathJaxLock still held
engineFinallyKept(m) == [m |-> m, wake |-> {}]

\* the finally block of the engine section: mathJaxLock.release()
engineFinally(m) == release(m)

\* the continuation of await withTimeout(svgFromTeX ...): catch, finally,
\* and the code after the try statement up to the next await
EngineResume(i) ==
  /\ pc[i] = "engRace"
  /\ wEng[i].race \in {"value", "error", "timeout"}
  /\ LET q == req[i]
         caught ==
           CASE wEng[i].race = "value" -> Ok(res[i])
             [] wEng[i].race = "timeout" ->
                  sendError(inBand, originalUrl(q), res[i], 504,
                            IF q.route = "latex"
                              THEN Chars["svgFromTeX request timed out"]
                              ELSE Chars["svgFromMathML request timed out"],
                            "The server took too long")
             [] wEng[i].race = "error" ->
                  sendError(inBand, originalUrl(q), res[i], 500,
                            Chars["Internal server error"], "error.message")
         rel == engineFinally(mathJaxLock)
         svg == IF wEng[i].race = "value" THEN "svg" ELSE "undefined"
     IN /\ mathJaxLock' = rel.m
        /\ newSvg' = [newSvg EXCEPT ![i] = svg]
        /\ IF caught.threw
             THEN LET out == outerCatch(q, caught.res)
                  IN /\ res' = [res EXCEPT ![i] = out.res]
                     /\ pc' = Goto(i, EndOf(out), rel.wake, {})
                     /\ UNCHANGED imageConverterLock
             ELSE IF toBool(q.svg)
               THEN LET out == respond(q, caught.res, "image/svg+xml",
                                       [kind |-> svg, text |-> <<>>])
                    IN /\ res' = [res EXCEPT ![i] = out.res]
                       /\ pc' = Goto(i, EndOf(out), rel.wake, {})
                       /\ UNCHANGED imageConverterLock
               ELSE /\ res' = [res EXCEPT ![i] = caught.res]
                    /\ AcquireConverterLock(i, rel.wake)
  /\ UNCHANGED <<inBand, req, wEng, wConv, svgCache>>

\* withTimeout(pngFromSvg(newSvg, ...), 3000) once the converter lock is
\* held: pngFromSvg is synchronous, so the operation has settled before the
\* race is awaited
ConverterInvoke(i) ==
  /\ pc[i] = "convHeld"
  /\ \E outcome \in {"value", "error"} :
       /\ newSvg[i] = "undefined" => outcome = "error"
       /\ wConv' = [wConv EXCEPT ![i] = opSettles(withTimeout, outcome)]
  /\ pc' = Goto(i, "convRace", {}, {})
  /\ UNCHANGED <<inBand, req, mathJaxLock, imageConverterLock, wEng, res,
                 newSvg, svgCache>>

\* the continuation of await withTimeout(pngFromSvg ...): catch, finally,
\* and the PNG response
ConverterResume(i) ==
  /\ pc[i] = "convRace"
  /\ wConv[i].race \in {"value", "error", "timeout"}
  /\ LET q == req[i]
         caught ==
           CASE wConv[i].race = "value" -> Ok(res[i])
             [] wConv[i].race = "timeout" ->
                  sendError(inBand, originalUrl(q), res[i], 504,
                            Chars["pngFromSvg request timed out"],
                            "The server took too long")
             [] wConv[i].race = "error" ->
                  sendError(inBand, originalUrl(q), res[i], 500,
                            Chars["Internal server error"], "error.message")
         rel == release(imageConverterLock)
         out == IF caught.threw
                  THEN outerCatch(q, caught.res)
                  ELSE respond(q, caught.res, "image/png",
                               [kind |-> "png", text |-> <<>>])
     IN /\ imageConverterLock' = rel.m
        /\ res' = [res EXCEPT ![i] = out.res]
        /\ pc' = Goto(i, EndOf(out), {}, rel.wake)
  /\ UNCHANGED <<inBand, req, mathJaxLock, wEng, wConv, newSvg, svgCache>>

\* router.get('/') of /asciimath up to await svgFromAM(...)
AsciimathStart(i) ==
  /\ pc[i] = "new"
  /\ req[i].route = "asciimath"
  /\ IF Rejects(i)
       THEN /\ res' = [res EXCEPT ![i] = Rejected(i)]
            /\ pc' = Goto(i, "done", {}, {})
            /\ UNCHANGED wEng
       ELSE /\ wEng' = [wEng EXCEPT ![i] =
                 IF generateSvgCacheKey(req[i], FALSE) \in svgCache
                   THEN Unguarded("value")
                   ELSE Unguarded("pending")]
            /\ pc' = Goto(i, "amOp", {}, {})
            /\ UNCHANGED res
  /\ UNCHANGED <<inBand, req, mathJaxLock, imageConverterLock, wConv, newSvg,
                 svgCache>>

\* the continuation of await svgFromAM(...): the SVG response, or the
\* synchronous pngFromSvg and the PNG response
AsciimathResume(i) ==
  /\ pc[i] = "amOp"
  /\ wEng[i].op \in {"value", "error"}
  /\ \E converted \in BOOLEAN :
       LET q == req[i]
           out == IF wEng[i].op = "error"
                    THEN outerCatch(q, res[i])
                    ELSE IF toBool(q.svg)
                      THEN respond(q, res[i], "image/svg+xml",
                                   [kind |-> "svg", text |-> <<>>])
                      ELSE IF converted
                        THEN respond(q, res[i], "image/png",
                                     [kind |-> "png", text |-> <<>>])
                        ELSE outerCatch(q, res[i])
       IN /\ res' = [res EXCEPT ![i] = out.res]
          /\ pc' = Goto(i, EndOf(out), {}, {})
          /\ newSvg' = [newSvg EXCEPT ![i] =
                          IF wEng[i].op = "value" THEN "svg" ELSE @]
  /\ UNCHANGED <<inBand, req, mathJaxLock, imageConverterLock, wEng, wConv,
                 svgCache>>

\* router.get('/') of /speechtext up to await mmlFromTeX / mmlFromMathML /
\* mmlFromAM
SpeechStart(i) ==
  /\ pc[i] = "new"
  /\ req[i].route = "speechtext"
  /\ LET q == req[i]
         pf == processFormula(q)
     IN IF q.formula \in {"undefined", "empty"}
          THEN /\ res' = [res EXCEPT ![i] =
                    sendWith([res[i] EXCEPT !.statusCode = 400], "text/html",
                             "",
                             [kind |-> "text",
                              text |-> Chars["One of \"asciimath\", \"latex\", or \"mathml\" parameter is required."]],
                             "handler").res]
               /\ pc' = Goto(i, "done", {}, {})
               /\ UNCHANGED wEng
          ELSE IF pf.formula \in {"null", ""}
            THEN /\ res' = [res EXCEPT ![i] =
                      IF pf.error = ""
                        THEN @
                        ELSE sendError(inBand, originalUrl(q), @, 400,
                                       Chars[pf.error],
                                       "not a valid formula").res]
                 /\ pc' = Goto(i, "done", {}, {})
                 /\ UNCHANGED wEng
            ELSE /\ wEng' = [wEng EXCEPT ![i] = Unguarded("pending")]
                 /\ pc' = Goto(i, "mmlOp", {}, {})
                 /\ UNCHANGED res
  /\ UNCHANGED <<inBand, req, mathJaxLock, imageConverterLock, wConv, newSvg,
                 svgCache>>

\* the continuation of await mmlFrom...: generateSpeechText, then
\* sendSpeechText, or next(error) and the errorHandler middleware
SpeechResume(i) ==
  /\ pc[i] = "mmlOp"
  /\ wEng[i].op \in {"value", "error"}
  /\ \E spoken \in BOOLEAN :
       LET options == getSpeechOptionsFromQuery(req[i])
           thrown == generateSpeechText(options)
           out == IF wEng[i].op = "error"
                    THEN errorHandler(res[i], Chars["MathJax error"])
                    ELSE IF thrown # <<>>
                      THEN errorHandler(res[i], thrown)
                      ELSE IF spoken \/ options.engine # Chars["sre"]
                        THEN sendWith(res[i], "text/plain",
                                      "public, max-age=86400",
                                      [kind |-> "speech", text |-> <<>>],
                                      "handler")
                        ELSE errorHandler(res[i], Chars["SRE error"])
       IN /\ res' = [res EXCEPT ![i] = out.res]
          /\ pc' = Goto(i, EndOf(out), {}, {})
  /\ UNCHANGED <<inBand, req, mathJaxLock, imageConverterLock, wEng, wConv,
                 newSvg, svgCache>>


(***************************************************************************)
(* The requests the service is given                                       *)
(***************************************************************************)
FlagValues == {"undefined", "1", "True", "no"}
Extras == {"", "ref=/speechtext", "ref=/SpeechText"}
ChunkIndexes == {"undefined", "nan", "neg", "zero", "pos"}
Engines == {"undefined", "mathcat", "sre", "invalidengine"}
Styles == {"undefined", "ClearSpeak", "MathSpeak", "invalidstyle"}
Verbosities == {"undefined", "Verbose", "Superbrief", "invalidverbosity"}

\* one request at a time: every shape of the formula, of the flags, and of
\* the speech options
SingleQueries ==
  {[BaseQuery(route) EXCEPT !.formula = f, !.isBase64 = b, !.extra = x] :
     route \in Routes, f \in FormulaShapes, b \in {"undefined", "1"},
     x \in Extras}
  \cup
  {[BaseQuery(route) EXCEPT !.svg = s, !.getChunkCount = g,
                            !.chunkIndex = c, !.extra = x] :
     route \in ImageRoutes, s \in FlagValues, g \in FlagValues,
     c \in ChunkIndexes, x \in {"", "ref=/speechtext"}}
  \cup
  {[BaseQuery("speechtext") EXCEPT !.dialect = d, !.engine = e, !.style = s,
                                   !.verbosity = v] :
     d \in {"latex", "mathml", "asciimath"}, e \in Engines, s \in Styles,
     v \in Verbosities}

\* requests that overlap in time: one kind per route
ConcurrentKinds ==
  <<BaseQuery("latex"),
    [BaseQuery("mathml") EXCEPT !.getChunkCount = "1"],
    BaseQuery("asciimath"),
    BaseQuery("speechtext")>>

ConcurrentQueries ==
  {[ConcurrentKinds[k] EXCEPT !.fid = f] :
     k \in 1..Len(ConcurrentKinds), f \in Formulas}

\* handlers look neither at the identity of a request nor at the identity
\* of a formula, so overlapping requests are listed in one order only, and
\* the first of them asks for the first formula
Rank(q) ==
  NumFormulas
      * (CHOOSE k \in 1..Len(ConcurrentKinds) :
           ConcurrentKinds[k].route = q.route)
    + q.fid

ServiceIdle ==
  /\ inBand = TRUE
  /\ req = [i \in Reqs |-> BaseQuery("latex")]
  /\ pc = [i \in Reqs |-> "absent"]
  /\ mathJaxLock = Mutex
  /\ imageConverterLock = Mutex
  /\ wEng = [i \in Reqs |-> NotStarted]
  /\ wConv = [i \in Reqs |-> NotStarted]
  /\ res = [i \in Reqs |-> NewRes]
  /\ newSvg = [i \in Reqs |-> "undefined"]
  /\ svgCache = {}

\* the server after start-up, with the requests that are about to arrive
ServiceInit ==
  /\ inBand \in BOOLEAN
  /\ \/ /\ \E q \in SingleQueries :
             req = [i \in Reqs |-> IF i = 1 THEN q ELSE BaseQuery("latex")]
        /\ pc = [i \in Reqs |-> IF i = 1 THEN "new" ELSE "absent"]
     \/ /\ req \in [Reqs -> ConcurrentQueries]
        /\ \A i, j \in Reqs : i < j => Rank(req[i]) <= Rank(req[j])
        /\ req[1].fid = 1
        /\ pc = [i \in Reqs |-> "new"]
  /\ mathJaxLock = Mutex
  /\ imageConverterLock = Mutex
  /\ wEng = [i \in Reqs |-> NotStarted]
  /\ wConv = [i \in Reqs |-> NotStarted]
  /\ res = [i \in Reqs |-> NewRes]
  /\ newSvg = [i \in Reqs |-> "undefined"]
  /\ svgCache = {}

\* no function is being applied
FunctionIdle == arg = "none" /\ result = <<>>

\* the engine manager is not exercised
EngineIdle ==
  /\ currentPackageSignature = <<"default">>
  /\ MathJax = 0
  /\ inits = <<>>
  /\ job = <<>>
  /\ overlapped = FALSE

\* the response cache is not exercised
CacheIdle ==
  /\ responseCache = <<>>
  /\ hits = 0
  /\ misses = 0
  /\ client = <<>>
  /\ lookups = <<>>
  /\ lastWrite = <<>>

\* everything but ...
IdleButMutex ==
  TimeoutIdle /\ ServiceIdle /\ FunctionIdle /\ EngineIdle /\ CacheIdle
IdleButTimeout ==
  MutexIdle /\ ServiceIdle /\ FunctionIdle /\ EngineIdle /\ CacheIdle
IdleButService ==
  MutexIdle /\ TimeoutIdle /\ FunctionIdle /\ EngineIdle /\ CacheIdle
IdleButFunction ==
  MutexIdle /\ TimeoutIdle /\ ServiceIdle /\ EngineIdle /\ CacheIdle
IdleButEngine ==
  MutexIdle /\ TimeoutIdle /\ ServiceIdle /\ FunctionIdle /\ CacheIdle
IdleButCache ==
  MutexIdle /\ TimeoutIdle /\ ServiceIdle /\ FunctionIdle /\ EngineIdle

(***************************************************************************)
(* Specifications                                                          *)
(***************************************************************************)
MutexInit == MutexIdle /\ IdleButMutex

MutexNext ==
  \/ \E p \in Callers : CallAcquire(p) /\ UNCHANGED besidesMutex
  \/ \E p \in Callers : CallRelease(p) /\ UNCHANGED besidesMutex

MutexSpec == MutexInit /\ [][MutexNext]_vars

\* every caller calls acquire(), and every holder calls release()
MutexFairSpec ==
  /\ MutexSpec
  /\ \A p \in Callers : WF_vars(CallAcquire(p) /\ UNCHANGED besidesMutex)
  /\ \A p \in Callers : WF_vars(CallRelease(p) /\ UNCHANGED besidesMutex)

TimeoutInit == TimeoutIdle /\ IdleButTimeout

TimeoutNext ==
  \/ \E c \in Calls : OpSettles(c) /\ UNCHANGED besidesTimeout
  \/ \E c \in Calls : TimerFires(c) /\ UNCHANGED besidesTimeout
  \/ \E c \in Calls : Deliver(c) /\ UNCHANGED besidesTimeout

TimeoutSpec == TimeoutInit /\ [][TimeoutNext]_vars

Init == ServiceInit /\ IdleButService

Next ==
  \/ \E i \in Reqs : LockedRouteStart(i) /\ UNCHANGED besidesService
  \/ \E i \in Reqs : CountResume(i) /\ UNCHANGED besidesService
  \/ \E i \in Reqs : EngineInvoke(i) /\ UNCHANGED besidesService
  \/ \E i \in Reqs : EngineSettles(i) /\ UNCHANGED besidesService
  \/ \E i \in Reqs : EngineTimeout(i) /\ UNCHANGED besidesService
  \/ \E i \in Reqs : EngineResume(i) /\ UNCHANGED besidesService
  \/ \E i \in Reqs : ConverterInvoke(i) /\ UNCHANGED besidesService
  \/ \E i \in Reqs : ConverterResume(i) /\ UNCHANGED besidesService
  \/ \E i \in Reqs : AsciimathStart(i) /\ UNCHANGED besidesService
  \/ \E i \in Reqs : AsciimathResume(i) /\ UNCHANGED besidesService
  \/ \E i \in Reqs : SpeechStart(i) /\ UNCHANGED besidesService
  \/ \E i \in Reqs : SpeechResume(i) /\ UNCHANGED besidesService

Spec == Init /\ [][Next]_vars

\* the steps of a /latex or /mathml request i that the event loop runs once
\* they are ready: the handler's continuations and the deadline timer;
\* whether the engine operation ever settles is left open
HandlerStep(i) ==
  \/ LockedRouteStart(i)
  \/ CountResume(i)
  \/ EngineInvoke(i)
  \/ EngineTimeout(i)
  \/ EngineResume(i)
  \/ ConverterInvoke(i)
  \/ ConverterResume(i)

\* requests that arrive together
OverlapInit ==
  /\ Init
  /\ \A i \in Reqs : pc[i] = "new"

\* every ready continuation of the locked routes is run and every armed
\* timer fires
FairSpec ==
  /\ OverlapInit
  /\ [][Next]_vars
  /\ \A i \in Reqs : WF_vars(HandlerStep(i) /\ UNCHANGED besidesService)

(***************************************************************************)
(* Properties of the Mutex                                                 *)
(***************************************************************************)
Holders == {p \in Callers : caller[p].st = "holding"}
Waiters == {p \in Callers : caller[p].st = "waiting"}
AllReleased == \A p \in Callers : caller[p].st = "released"

\* C1: when release() is called only by the current holder, at most one
\* caller at a time has had its acquire() resolved without having released.
C1_MutualExclusion == Cardinality(Holders) <= 1

\* A holder that had to wait, after an earlier holder released, with another
\* caller still waiting behind it.
C1_Witness ==
  /\ nReleases >= 1
  /\ \E p \in Holders : caller[p].waited
  /\ Waiters # {}

\* C2: waiters are granted the lock in the order of their acquire() calls:
\* whenever a caller becomes the holder, every caller still waiting called
\* acquire() after it.
C2_FifoOrder ==
  [][\A p \in Callers :
       (caller[p].st # "holding" /\ caller'[p].st = "holding")
         => \A q \in Callers :
              caller'[q].st = "waiting" => caller'[q].ticket > caller'[p].ticket]_vars

\* The lock was handed to the second arrival while two later arrivals wait.
C2_Witness ==
  \E p \in Holders :
    /\ caller[p].waited
    /\ caller[p].ticket = 2
    /\ Cardinality(Waiters) >= 2

\* C3: if every holder calls release() once, each of the K acquire() calls
\* resolves, and resolves once; when all K have released, grants equal
\* releases and the lock is free with an empty queue.
C3_Liveness ==
  /\ \A p \in Callers : <>(caller[p].grants = 1)
  /\ [](\A p \in Callers : caller[p].grants <= 1)
  /\ <>[]AllReleased
  /\ [](AllReleased =>
          /\ nGrants = NumCallers
          /\ nReleases = nGrants
          /\ lock = Mutex)

\* All K callers have acquired and released, some of them after waiting.
C3_Witness ==
  /\ AllReleased
  /\ nGrants = NumCallers
  /\ \E p \in Callers : caller[p].waited

(***************************************************************************)
(* Properties of withTimeout                                               *)
(***************************************************************************)
\* C4: the caller of withTimeout gets the operation's own outcome when the
\* operation settles before the deadline and the timeout signal when the
\* deadline passes first; one outcome is delivered; an operation that
\* completes writes its side effect whether or not its caller timed out.
C4_TimeoutOutcome ==
  \A c \in Calls :
    /\ call[c].delivered <= 1
    /\ call[c].delivered = 1 =>
         /\ call[c].first = "op" => call[c].result = call[c].w.op
         /\ call[c].first = "timer" => call[c].result = "timeout"
    /\ call[c].w.op = "value" <=> c \in effects

\* The caller got the timeout signal, and the operation completed afterwards
\* and left its side effect.
C4_Witness ==
  \E c \in Calls :
    /\ call[c].delivered = 1
    /\ call[c].result = "timeout"
    /\ call[c].w.op = "value"
    /\ c \in effects


(***************************************************************************)
(* Properties of the routes                                                *)
(***************************************************************************)
\* the requests whose engine operation is running
EngineOpsInFlight == {i \in Reqs : wEng[i].op = "pending"}

\* the handler of i has finished
Finished(i) == pc[i] \in {"done", "rejected"}

\* i was answered by sendError
AnsweredBySendError(i) == res[i].sent /\ res[i].origin = "sendError"

\* C5: the rendering engine is never invoked concurrently: at most one
\* engine operation is in flight at any time, over all routes and counting
\* the operations whose caller has timed out.
C5_EngineExclusive == Cardinality(EngineOpsInFlight) <= 1

\* C6: a /latex or /mathml request whose guarded engine invocation failed or
\* timed out answers with the Fallback and stops: it makes no further attempt
\* to respond, does not queue for or hold the converter lock, and does not
\* invoke the raster conversion.
C6_FailureStops ==
  \A i \in Reqs :
    (/\ req[i].route \in {"latex", "mathml"}
     /\ wEng[i].race \in {"error", "timeout"}
     /\ pc[i] # "engRace")
      => /\ pc[i] = "done"
         /\ AnsweredBySendError(i)
         /\ res[i].attempts = 1
         /\ wConv[i] = NotStarted

\* C7: in in-band error mode every response made by sendError has status
\* 200, Cache-Control 'no-cache, no-store, must-revalidate', and the content
\* type of the route class: image/svg+xml with the error graphic on the image
\* routes, text/plain with a body starting 'Error: ' on /speechtext.
C7_InBandFallback ==
  \A i \in Reqs :
    (inBand /\ AnsweredBySendError(i))
      => /\ res[i].wireStatus = 200
         /\ res[i].cc = "no-cache, no-store, must-revalidate"
         /\ req[i].route \in ImageRoutes =>
              /\ res[i].ctype = "image/svg+xml"
              /\ res[i].body.kind = "errorSvg"
         /\ req[i].route = "speechtext" =>
              /\ res[i].ctype = "text/plain"
              /\ res[i].body.kind = "text"
              /\ startsWith(res[i].body.text, Chars["Error: "])

\* C8: the configuration flag alone selects the form of the responses made
\* by sendError: with the flag false they carry the non-success status that
\* sendError was given and a JSON body {error, message}, never status 200 and
\* never an image or text artifact; with the flag true they are never JSON.
C8_FlagSelectsMode ==
  \A i \in Reqs :
    AnsweredBySendError(i)
      => IF inBand
           THEN /\ res[i].body.kind \in {"errorSvg", "text"}
                /\ res[i].ctype # "application/json"
           ELSE /\ res[i].wireStatus = res[i].givenStatus
                /\ res[i].givenStatus \in {400, 500, 504}
                /\ res[i].ctype = "application/json"
                /\ res[i].body.kind = "json"

\* With the flag false, a request whose engine invocation timed out was
\* answered by sendError with 504 and JSON, and its handler then went on and
\* reached sendError again.
C8_Witness ==
  \E i \in Reqs :
    /\ ~inBand
    /\ AnsweredBySendError(i)
    /\ res[i].wireStatus = 504
    /\ res[i].body.kind = "json"
    /\ res[i].attempts >= 3
    /\ Finished(i)

\* C9: a request without a formula parameter, or with an empty one, is
\* answered by the Fallback of the configured mode with an error text that
\* contains 'Missing required parameter', on the image routes and on
\* /speechtext (there, in in-band mode: 200, text/plain, a body containing
\* 'Error: Missing required parameter').
C9_MissingParameter ==
  \A i \in Reqs :
    (Finished(i) /\ req[i].formula \in {"undefined", "empty"})
      => /\ res[i].sent
         /\ includes(res[i].body.text, Chars["Missing required parameter"])
         /\ (inBand /\ req[i].route = "speechtext") =>
              /\ res[i].wireStatus = 200
              /\ res[i].ctype = "text/plain"
              /\ includes(res[i].body.text,
                          Chars["Error: "]
                            \o Chars["Missing required parameter"])
         /\ ~inBand =>
              /\ res[i].body.kind = "json"
              /\ res[i].wireStatus = 400

\* C10: in in-band mode a /speechtext request is never answered by the
\* generic error handler's JSON 500, and one with an unsupported engine,
\* style or verbosity is answered with status 200, text/plain and a body
\* containing 'Error: Invalid speech options'.
C10_SpeechFailureInBand ==
  \A i \in Reqs :
    (inBand /\ req[i].route = "speechtext" /\ Finished(i) /\ res[i].sent)
      => /\ res[i].origin # "errorHandler"
         /\ (/\ wEng[i].op = "value"
             /\ generateSpeechText(getSpeechOptionsFromQuery(req[i])) # <<>>)
              => /\ res[i].wireStatus = 200
                 /\ res[i].ctype = "text/plain"
                 /\ includes(res[i].body.text,
                             Chars["Error: "]
                               \o Chars["Invalid speech options"])

\* C19: on every image route a request with a negative or non-numeric
\* chunkIndex (and no getChunkCount) is answered 'Invalid chunkIndex
\* parameter' and never starts an engine operation.
C19_InvalidChunkIndexRejected ==
  \A i \in Reqs :
    (/\ req[i].route \in ImageRoutes
     /\ Finished(i)
     /\ ~validateFormula(req[i]).stop
     /\ ~toBool(req[i].getChunkCount)
     /\ invalidChunkIndex(req[i].chunkIndex))
      => /\ wEng[i].op = "none"
         /\ includes(res[i].body.text, Chars["Invalid chunkIndex parameter"])

\* the requests inside the try statement that follows acquire()
EngineHolders == {i \in Reqs : pc[i] \in {"engHeld", "engRace"}}
ConverterHolders == {i \in Reqs : pc[i] \in {"convHeld", "convRace"}}

\* the elements of a sequence
Range(s) == {s[k] : k \in 1..Len(s)}

\* a lock is locked exactly while one request is inside its try statement,
\* and those queued on it are the requests waiting in acquire()
HeldBySection(m, holders, waiting) ==
  /\ m.locked <=> holders # {}
  /\ Cardinality(holders) <= 1
  /\ Range(m.queue) = waiting
  /\ Len(m.queue) = Cardinality(waiting)
  /\ Len(m.queue) > 0 => m.locked

\* C22: on /latex and /mathml every granted acquire() of mathJaxLock or
\* imageConverterLock is matched by exactly one release() of the same
\* request on every exit path: a lock is held exactly while one request is
\* between its acquire() and the end of its finally block, and a request
\* whose deadline fired has released the lock although its operation has not
\* settled.
C22_ReleaseDiscipline ==
  /\ HeldBySection(mathJaxLock, EngineHolders,
                   {i \in Reqs : pc[i] = "engWait"})
  /\ HeldBySection(imageConverterLock, ConverterHolders,
                   {i \in Reqs : pc[i] = "convWait"})
  /\ \A i \in Reqs :
       (wEng[i].race = "timeout" /\ pc[i] # "engRace") =>
         i \notin EngineHolders

\* the deadline of one request fired, its engine operation is still running,
\* it has left the engine section, and the lock is with another request
C22_Witness ==
  \E i, j \in Reqs :
    /\ i # j
    /\ wEng[i].race = "timeout"
    /\ wEng[i].op = "pending"
    /\ pc[i] \notin {"engHeld", "engRace", "engWait"}
    /\ j \in EngineHolders
    /\ mathJaxLock.locked

\* the requests between the call of imageConverterLock.acquire() and the end
\* of the converter section, and the same for mathJaxLock
AtConverter == {i \in Reqs : pc[i] \in {"convWait", "convHeld", "convRace"}}
AtEngine == {i \in Reqs : pc[i] \in {"engWait", "engHeld", "engRace"}}

\* C27: a request that asks for or holds imageConverterLock does not hold
\* mathJaxLock (if that lock is taken, another request is inside the engine
\* section), a request that asks for or holds mathJaxLock does not hold
\* imageConverterLock, and a request that waits for a lock waits for a
\* request that is running inside the section, never for one that waits.
C27_LockOrdering ==
  \A i \in Reqs :
    /\ (i \in AtConverter /\ mathJaxLock.locked) =>
         \E j \in Reqs \ {i} : j \in EngineHolders
    /\ (i \in AtEngine /\ imageConverterLock.locked) =>
         \E j \in Reqs \ {i} : j \in ConverterHolders
    /\ pc[i] = "engWait" => \E j \in Reqs \ {i} : j \in EngineHolders
    /\ pc[i] = "convWait" => \E j \in Reqs \ {i} : j \in ConverterHolders

\* one request has left the engine section and holds the converter lock
\* while another one holds the engine lock
C27_Witness ==
  \E i, j \in Reqs :
    /\ i # j
    /\ pc[i] = "convHeld" /\ wEng[i].race = "value"
    /\ imageConverterLock.locked
    /\ pc[j] = "engRace"
    /\ mathJaxLock.locked

\* the handler of i has returned or thrown, a response was sent, and i is in
\* no lock section
Answered(i) ==
  /\ pc[i] \in {"done", "rejected"}
  /\ res[i].attempts >= 1
  /\ i \notin EngineHolders \cup ConverterHolders

\* a /latex or /mathml request that has arrived and passes validation
PassesValidation(i) ==
  /\ pc[i] # "absent"
  /\ req[i].route \in {"latex", "mathml"}
  /\ ~Rejects(i)

\* C28: when every ready continuation is run and every armed timer fires,
\* every /latex or /mathml request that passes validation is eventually
\* answered and is then in no lock section, whether or not its engine
\* operation ever settles.
C28_RequestTerminates ==
  \A i \in Reqs : PassesValidation(i) ~> Answered(i)

\* the same for the requests that go through the lock sections
LockSectionsTerminate ==
  \A i \in Reqs :
    (PassesValidation(i) /\ ~toBool(req[i].getChunkCount)) ~> Answered(i)

\* C29: on every path through an image route that answers, the handler
\* tries to send a response exactly once: when it has ended, res.send /
\* res.json was reached once, by the normal response or by one Fallback.
C29_OneResponseAttempt ==
  \A i \in Reqs :
    (req[i].route \in ImageRoutes /\ Finished(i) /\ res[i].sent) =>
      res[i].attempts = 1

\* the request fails the validation of its input or of its speech options
FailsValidation(i) ==
  IF req[i].route = "speechtext"
    THEN \/ validateFormula(req[i]).stop
         \/ generateSpeechText(getSpeechOptionsFromQuery(req[i])) # <<>>
    ELSE Rejects(i)

\* C23: a request that fails input validation or option validation never
\* waits for or holds a lock and never starts an engine or converter
\* operation.
C23_ValidationFirst ==
  \A i \in Reqs :
    FailsValidation(i) =>
      /\ wEng[i] = NotStarted
      /\ wConv[i] = NotStarted
      /\ pc[i] \in {"absent", "new", "done", "rejected"}

(***************************************************************************)
(* Base64 formulas (utils/index.js), on the characters of the formula      *)
(***************************************************************************)
MaxFormulaLen == 4

\* "e" stands for the letters and digits; "!" for a character that is neither
\* in the alphabet nor white space
FormulaChars == {"e", "-", "_", "/", "=", " ", "!"}
Formulae == UNION {[1..n -> FormulaChars] : n \in 0..MaxFormulaLen}

\* String.prototype.replace(/c/g, by)
replaceAll(s, c, by) == [i \in 1..Len(s) |-> IF s[i] = c THEN by ELSE s[i]]

\* urlSafeBase64ToBase64(urlSafeBase64): '-' to '+', '_' to '/', then '='
\* appended until the length is a multiple of 4
urlSafeBase64ToBase64(urlSafeBase64) ==
  LET base64 == replaceAll(replaceAll(urlSafeBase64, "-", "+"), "_", "/")
  IN base64 \o [i \in 1..((4 - (Len(base64) % 4)) % 4) |-> "="]

\* String.prototype.trim
trim(s) ==
  LET inked == {i \in 1..Len(s) : s[i] # " "}
  IN IF inked = {}
       THEN <<>>
       ELSE SubSeq(s, CHOOSE i \in inked : \A j \in inked : i <= j,
                      CHOOSE i \in inked : \A j \in inked : i >= j)

\* /^[A-Za-z0-9+/]*={0,2}$/.test(str)
base64Regex(str) ==
  \E k \in 0..2 :
    /\ k <= Len(str)
    /\ \A i \in 1..Len(str) :
         IF i <= Len(str) - k THEN str[i] \in {"e", "+", "/"}
                              ELSE str[i] = "="

\* isBase64(str) of utils/index.js: the test is made on the trimmed string
isBase64String(str) == str # <<>> /\ base64Regex(trim(str))

\* Buffer.from(str, 'base64').toString('utf-8'): characters outside the
\* alphabet are skipped, '=' ends the data, four characters give three bytes;
\* "x" stands for a decoded character
base64Decode(str) ==
  LET stops == {i \in 1..Len(str) : str[i] = "="}
      data == {i \in 1..Len(str) :
                 /\ str[i] \in {"e", "+", "/", "-", "_"}
                 /\ \A j \in stops : i < j}
  IN [i \in 1..((Cardinality(data) * 6) \div 8) |-> "x"]

\* processFormula(req, res, formula): the error it answers with ("" if none)
\* and the formula it returns ("null" after an error)
processFormulaText(isBase64Flag, formula) ==
  LET decode == toBool(isBase64Flag) /\ formula # <<>>
      converted == urlSafeBase64ToBase64(formula)
      text == IF decode THEN trim(base64Decode(converted)) ELSE formula
  IN IF decode /\ ~isBase64String(converted)
       THEN [error |-> "Invalid base64 string", formula |-> "null"]
       ELSE IF text = <<>>
         THEN [error |-> "Formula is required", formula |-> "null"]
         ELSE [error |-> "", formula |-> trim(text)]

FormulaInputs ==
  /\ arg \in [isBase64 : {"undefined", "true"}, formula : Formulae]
  /\ result = <<>>

ProcessFormula ==
  /\ result = <<>>
  /\ result' = <<processFormulaText(arg.isBase64, arg.formula)>>
  /\ UNCHANGED arg

FormulaNext == ProcessFormula /\ UNCHANGED besidesFunction

FormulaInit == FormulaInputs /\ IdleButFunction

FormulaSpec == FormulaInit /\ [][FormulaNext]_vars

\* a string of characters of the standard or URL-safe alphabet followed by at
\* most two '='
WellFormedBase64(s) ==
  \E k \in 0..2 :
    /\ k <= Len(s)
    /\ \A i \in 1..Len(s) :
         IF i <= Len(s) - k THEN s[i] \in {"e", "+", "/", "-", "_"}
                            ELSE s[i] = "="

\* C11: with isBase64 truthy, a formula that is not well-formed standard or
\* URL-safe base64 (white space at either end included) is answered with
\* 'Invalid base64 string' and no formula is passed on to the engine.
C11_MalformedRejected ==
  (/\ result # <<>>
   /\ toBool(arg.isBase64)
   /\ arg.formula # <<>>
   /\ ~WellFormedBase64(arg.formula))
    => /\ result[1].error = "Invalid base64 string"
       /\ result[1].formula = "null"

(***************************************************************************)
(* Keys of the SVG cache (services/mathJaxConverters.js)                   *)
(***************************************************************************)
\* the query parameters that buildMathConversionOptions reads, as given in
\* the URL ("undefined" when absent)
OptionQueries ==
  [display : {"undefined", "true"},
   em : {"undefined", "16"},
   ex : {"undefined", "4"},
   containerWidth : {"undefined", "640"},
   scale : {"undefined", "2"}]

\* toNum(v): Number(v)
toNum(v) ==
  CASE v = "1" -> 1 [] v = "2" -> 2 [] v = "4" -> 4 [] v = "8" -> 8
    [] v = "16" -> 16 [] v = "640" -> 640

\* JSON.stringify of a number or of a boolean
stringify(v) ==
  CASE v = 1 -> "1" [] v = 2 -> "2" [] v = 4 -> "4" [] v = 8 -> "8"
    [] v = 16 -> "16" [] v = 320 -> "320" [] v = 640 -> "640"

\* an object is the sequence of its properties, in insertion order
has(o, key) == \E i \in 1..Len(o) : o[i][1] = key
get(o, key) == o[CHOOSE i \in 1..Len(o) : o[i][1] = key][2]
set(o, key, value) ==
  IF has(o, key)
    THEN [i \in 1..Len(o) |-> IF o[i][1] = key THEN <<key, value>> ELSE o[i]]
    ELSE Append(o, <<key, value>>)
delete(o, key) == SelectSeq(o, LAMBDA p : p[1] # key)

\* one round of the for loop of buildMathConversionOptions: a numeric
\* parameter that is present in the query is converted and assigned
readField(options, key, v) ==
  IF v = "undefined" THEN options ELSE set(options, key, stringify(toNum(v)))

\* the for loop of buildMathConversionOptions: the parameters present in
\* the query, converted, in the order of the fields table
givenOptions(query) ==
  readField(
    readField(
      readField(
        readField(IF query.display = "undefined" THEN <<>>
                  ELSE <<<<"display",
                           IF toBool(query.display) THEN "true"
                                                    ELSE "false">>>>,
                  "em", query.em),
        "ex", query.ex),
      "containerWidth", query.containerWidth),
    "scale", query.scale)

\* if (options.key === undefined) options.key = value
fillDefault(options, key, value) ==
  IF has(options, key) THEN options ELSE set(options, key, value)

\* the container width that is filled in: 80 times the ex size
fillContainerWidth(options) ==
  fillDefault(options, "containerWidth",
              stringify(toNum(get(options, "ex")) * 80))

\* buildMathConversionOptions(query): the defaults are assigned after the
\* loop to the properties that are still undefined
buildMathConversionOptions(query) ==
  fillDefault(
    fillContainerWidth(
      fillDefault(
        fillDefault(
          fillDefault(givenOptions(query), "display", "true"),
          "em", "16"),
        "ex", "8")),
    "scale", "1")

\* `${type}:${JSON.stringify(options)}:${input}`
cacheKeyOf(input, type, options) == <<type, options, input>>

\* the key under which svgFromTeX / svgFromMathML looks the formula up: the
\* scale is deleted from the options first
svgKey(request) ==
  cacheKeyOf(request.formula, request.type,
             delete(buildMathConversionOptions(request.query), "scale"))

\* the options that take effect, by name
effective(query) ==
  LET o == buildMathConversionOptions(query)
  IN [display |-> get(o, "display"), em |-> get(o, "em"),
      ex |-> get(o, "ex"), containerWidth |-> get(o, "containerWidth")]

KeyRequests ==
  [type : {"tex", "mathml"}, formula : Formulas, query : OptionQueries]

KeyInputs ==
  /\ arg \in [first : KeyRequests, second : KeyRequests]
  /\ result = <<>>

ComputeKeys ==
  /\ result = <<>>
  /\ result' = <<[first |-> svgKey(arg.first), second |-> svgKey(arg.second)]>>
  /\ UNCHANGED arg

KeyNext == ComputeKeys /\ UNCHANGED besidesFunction

KeyInit == KeyInputs /\ IdleButFunction

KeySpec == KeyInit /\ [][KeyNext]_vars

\* C12: two requests with the same formula, the same input type and the same
\* effective conversion options after default-filling get the same cache
\* key, whichever options were given and whichever were filled in.
C12_EqualRequestsEqualKeys ==
  (/\ result # <<>>
   /\ arg.first.formula = arg.second.formula
   /\ arg.first.type = arg.second.type
   /\ effective(arg.first.query) = effective(arg.second.query))
    => result[1].first = result[1].second

(***************************************************************************)
(* The engine manager (services/mathJaxConverters.js): configureMathJax,   *)
(* ensureMathJaxReady and the engine jobs that go through them             *)
(***************************************************************************)
NumJobs == 3
Jobs == 1..NumJobs

\* the sorted \require{...} packages of a TeX string: none, or one
PackageLists == {<<>>, <<"cancel">>}

\* createPackageSignature(packages): packages.join(','), or 'default'
createPackageSignature(packages) ==
  IF Len(packages) > 0 THEN packages ELSE <<"default">>

\* a reset is needed only for packages that are not loaded yet
needsMathJaxResetUnion(current, requiredPackages) ==
  \E i \in 1..Len(requiredPackages) :
    \A j \in 1..Len(current) : current[j] # requiredPackages[i]

\* needsMathJaxReset(requiredPackages), given currentPackageSignature
needsMathJaxReset(current, requiredPackages) ==
  current # createPackageSignature(requiredPackages)

\* a job: tex says whether it renders TeX (and so calls ensureMathJaxReady),
\* guarded whether its route wraps it in mathJaxLock and withTimeout;
\* init is the initialization it started, engine the instance it was run on
NewJob(tex, packages, guarded) ==
  [tex |-> tex, packages |-> packages, guarded |-> guarded, pc |-> "new",
   init |-> 0, loadedBefore |-> <<>>, engine |-> 0, engineStatus |-> "none",
   holds |-> FALSE, timedOut |-> FALSE]

\* svgFromTeX on /latex (guarded), getSvgCountForTeX and mmlFromTeX
\* (unguarded), svgFromAM and mmlFromMathML (unguarded)
JobKinds ==
  {NewJob(TRUE, p, TRUE) : p \in PackageLists}
    \cup {NewJob(TRUE, <<"cancel">>, FALSE), NewJob(FALSE, <<>>, FALSE)}

Pending == {k \in 1..Len(inits) : inits[k].status = "pending"}

\* MathJax.tex2svgPromise(...) and its kin, called in the continuation of the
\* job's await: the job runs on global.MathJax as it is then
converted(j, instance, all) ==
  [j EXCEPT !.pc = "done", !.engine = instance,
            !.engineStatus = all[instance].status]

\* the finally block of r: mathJaxLock.release(), which hands the lock to
\* the job that has waited longest
released(j, r) ==
  LET waiting == {w \in Jobs : j[w].pc = "lockWait"}
      first == CHOOSE w \in waiting : \A v \in waiting : w <= v
  IN IF ~j[r].holds THEN j
     ELSE [w \in Jobs |->
             IF w = r THEN [j[w] EXCEPT !.holds = FALSE]
             ELSE IF waiting # {} /\ w = first
               THEN [j[w] EXCEPT !.pc = "granted", !.holds = TRUE]
             ELSE j[w]]

\* .then of MathJax.startup.promise that leaves the signature as it is
onReadyKeep(current, packages) == current

\* .then of MathJax.startup.promise: currentPackageSignature afterwards
onReady(current, packages) == createPackageSignature(packages)

\* module load: configureMathJax() is called and its promise is dropped
ModuleLoad ==
  /\ currentPackageSignature = <<"mathjax needs loading">>
  /\ inits = <<[packages |-> <<>>, status |-> "pending", heldAtStart |-> FALSE,
                heldAtEnd |-> FALSE]>>
  /\ MathJax = 1
  /\ job \in [Jobs -> JobKinds]
  /\ overlapped = FALSE

\* the continuation of a resolved acquire() is a microtask: it runs before
\* the next request, timer or startup event is handled
NoneGranted == \A q \in Jobs : job[q].pc # "granted"

\* jobs are numbered in the order in which they arrive
JobArrives(r) ==
  /\ job[r].pc = "new"
  /\ NoneGranted
  /\ \A q \in Jobs : q < r => job[q].pc # "new"

\* r is about to call the engine manager: it has just arrived and needs no
\* lock or finds it free, or its acquire() has been resolved by a release()
Enters(r) ==
  \/ job[r].pc = "granted"
  \/ /\ JobArrives(r)
     /\ job[r].guarded => \A q \in Jobs : ~job[q].holds

\* await mathJaxLock.acquire() by a job that finds the lock taken
AwaitLock(r) ==
  /\ JobArrives(r)
  /\ job[r].guarded
  /\ \E q \in Jobs : job[q].holds
  /\ job' = [job EXCEPT ![r] = [@ EXCEPT !.pc = "lockWait"]]
  /\ UNCHANGED <<currentPackageSignature, MathJax, inits, overlapped>>

\* a TeX job calls ensureMathJaxReady(tex): either configureMathJax deletes
\* global.MathJax, builds a new one and starts it, or the job awaits the
\* module's mathJaxReady (null) and goes on with the instance there is
EnsureMathJaxReady(r) ==
  /\ Enters(r)
  /\ job[r].tex
  /\ overlapped' = (overlapped \/ Pending # {})
  /\ IF needsMathJaxReset(currentPackageSignature, job[r].packages)
       THEN /\ inits' = Append(inits, [packages |-> job[r].packages,
                                       status |-> "pending",
                                       heldAtStart |-> job[r].guarded,
                                       heldAtEnd |-> FALSE])
            /\ MathJax' = Len(inits) + 1
            /\ job' = [job EXCEPT ![r] =
                         [@ EXCEPT !.pc = "awaitInit",
                                   !.holds = job[r].guarded,
                                   !.init = Len(inits) + 1,
                                   !.loadedBefore = currentPackageSignature]]
       ELSE /\ job' = released(
                        [job EXCEPT ![r] =
                           converted([@ EXCEPT !.holds = job[r].guarded,
                                               !.loadedBefore =
                                                  currentPackageSignature],
                                     MathJax, inits)], r)
            /\ UNCHANGED <<inits, MathJax>>
  /\ UNCHANGED currentPackageSignature

\* a MathML or AsciiMath job awaits the module's mathJaxReady, which is null
AwaitMathJaxReady(r) ==
  /\ Enters(r)
  /\ ~job[r].tex
  /\ overlapped' = (overlapped \/ Pending # {})
  /\ job' = released(
              [job EXCEPT ![r] =
                 converted([@ EXCEPT !.holds = job[r].guarded,
                                     !.loadedBefore = currentPackageSignature],
                           MathJax, inits)], r)
  /\ UNCHANGED <<currentPackageSignature, inits, MathJax>>

\* the 3000 ms timer of a guarded job fires while the job awaits its
\* initialization: the handler answers with the Fallback and releases the
\* lock; the initialization and the job's engine call go on
JobTimeout(r) ==
  /\ job[r].pc = "awaitInit"
  /\ job[r].guarded
  /\ ~job[r].timedOut
  /\ NoneGranted
  /\ job' = released([job EXCEPT ![r] = [@ EXCEPT !.timedOut = TRUE]], r)
  /\ UNCHANGED <<currentPackageSignature, MathJax, inits, overlapped>>

\* the job that awaits initialization k
awaiting(k) == {r \in Jobs : job[r].pc = "awaitInit" /\ job[r].init = k}

\* the jobs after initialization k settled and the job that awaits it went
\* on (moved): unless its handler has timed out, it releases the lock
afterStartup(k, moved) ==
  IF awaiting(k) = {} THEN job
  ELSE released(moved, CHOOSE r \in awaiting(k) : TRUE)

\* MathJax.startup.promise of initialization k fulfils: the signature is
\* recorded, and the job that awaits it goes on
StartupFulfils(k) ==
  /\ k \in Pending
  /\ NoneGranted
  /\ inits' = [inits EXCEPT ![k] =
        [@ EXCEPT !.status = "ready",
                  !.heldAtEnd = \E r \in Jobs : job[r].init = k /\ job[r].holds]]
  /\ currentPackageSignature' =
       onReady(currentPackageSignature, inits[k].packages)
  /\ job' = afterStartup(k, [r \in Jobs |->
                                IF r \in awaiting(k)
                                  THEN converted(job[r], MathJax, inits')
                                  ELSE job[r]])
  /\ UNCHANGED <<MathJax, overlapped>>

\* MathJax.startup.promise of initialization k rejects: the error is logged
\* and thrown again to the job that awaits it
StartupRejects(k) ==
  /\ k \in Pending
  /\ NoneGranted
  /\ inits' = [inits EXCEPT ![k] = [@ EXCEPT !.status = "failed"]]
  /\ job' = afterStartup(k, [r \in Jobs |->
                                IF r \in awaiting(k)
                                  THEN [job[r] EXCEPT !.pc = "failed"]
                                  ELSE job[r]])
  /\ UNCHANGED <<currentPackageSignature, MathJax, overlapped>>

EngineNext ==
  \/ \E r \in Jobs : AwaitLock(r) /\ UNCHANGED besidesEngine
  \/ \E r \in Jobs : EnsureMathJaxReady(r) /\ UNCHANGED besidesEngine
  \/ \E r \in Jobs : AwaitMathJaxReady(r) /\ UNCHANGED besidesEngine
  \/ \E r \in Jobs : JobTimeout(r) /\ UNCHANGED besidesEngine
  \/ \E k \in 1..Len(inits) : StartupFulfils(k) /\ UNCHANGED besidesEngine
  \/ \E k \in 1..Len(inits) : StartupRejects(k) /\ UNCHANGED besidesEngine

EngineInit == ModuleLoad /\ IdleButEngine

EngineSpec == EngineInit /\ [][EngineNext]_vars


\* ---- properties of the engine manager --------------------------------------

Started(r) == job[r].pc \notin {"new", "lockWait", "granted"}

\* the job started an initialization of its own
Triggered(r) == Started(r) /\ job[r].init # 0

\* the signature asked for by the latest TeX job before r, or the one of the
\* module-load initialization when there is none
RECURSIVE LoadedFor(_)
LoadedFor(r) ==
  IF r = 1 THEN <<"default">>
  ELSE IF job[r - 1].tex THEN createPackageSignature(job[r - 1].packages)
  ELSE LoadedFor(r - 1)

\* no job started while an initialization was pending, and none failed
Sequential ==
  /\ ~overlapped
  /\ \A k \in 1..Len(inits) : inits[k].status # "failed"

C14_EngineSingleton == Cardinality(Pending) <= 1

\* C15: after an initialization started by a job has failed, no job is run
\* on the instance whose startup failed: a job is passed to the engine only
\* once a later initialization has succeeded.
C15_NoRunOnFailedEngine ==
  \A r \in Jobs :
    (job[r].pc = "done" /\ job[r].engine > 1) =>
      job[r].engineStatus # "failed"

\* C24: every initialization started by a job (the teardown of global.MathJax
\* and the start of the reconfiguration) begins while that job holds
\* mathJaxLock, and when it succeeds the update of the loaded signature
\* happens while that job still holds the lock.
C24_EngineStateChangesUnderLock ==
  \A k \in 2..Len(inits) :
    /\ inits[k].heldAtStart
    /\ inits[k].status = "ready" => inits[k].heldAtEnd

\* C25: no job is run on an instance, built by a job's reconfiguration, whose
\* startup was still in progress when the engine was called: every job waits
\* for the initialization in progress.
C25_SharedReadySignal ==
  \A r \in Jobs :
    (job[r].pc = "done" /\ job[r].engine > 1) =>
      job[r].engineStatus # "pending"

\* C26: when the initialization started by a job whose handler has timed out
\* (the Fallback is sent and the lock released) completes, the loaded
\* signature becomes the one that job asked for, so that a job asking for the
\* same packages afterwards needs no reset.
C26_TimedOutReinitTakesEffect ==
  [][\A r \in Jobs :
       (/\ job[r].timedOut
        /\ job[r].pc = "awaitInit"
        /\ inits'[job[r].init].status = "ready") =>
         /\ ~job[r].holds
         /\ job'[r].pc = "done"
         /\ currentPackageSignature' = createPackageSignature(job[r].packages)
         /\ ~needsMathJaxReset(currentPackageSignature', job[r].packages)]_vars

\* a job timed out while its initialization was pending; the initialization
\* completed afterwards, and a later job asking for the same packages was
\* run without a reset
C26_Witness ==
  \E q, r \in Jobs :
    /\ q < r
    /\ job[q].timedOut /\ ~job[q].holds /\ job[q].pc = "done"
    /\ inits[job[q].init].status = "ready"
    /\ inits[job[q].init].heldAtStart /\ ~inits[job[q].init].heldAtEnd
    /\ job[r].tex /\ job[r].packages = job[q].packages
    /\ job[r].pc = "done" /\ job[r].init = 0
    /\ job[r].loadedBefore = createPackageSignature(job[q].packages)
    /\ job[r].engine = job[q].init


(***************************************************************************)
(* The response cache (middleware/cache.js) and the endpoints /cache-stats *)
(* and /cache-clear (routes/index.js)                                      *)
(***************************************************************************)
NumClients == 3
Clients == 1..NumClients

\* req.originalUrl of the requests that pass through the middleware
CachedUrls == {"/latex?latex=a", "/latex?latex=b"}

\* res.statusCode when the handler sends
Statuses == {200, 400}

\* the value stored for a URL; buffer names the request whose body it is
Stored(c) == [buffer |-> c, stale |-> FALSE]

\* every set adds an entry
lruSetAppend(cache, key, value) == Append(cache, <<key, value>>)

\* LRUCache.set(key, value): the entry of the key is replaced, or added
lruSet(cache, key, value) == set(cache, key, value)

\* LRUCache.get(key): the value, <<>> for undefined; an entry past its ttl
\* is dropped and not returned
originalGet(cache, key) ==
  IF has(cache, key) /\ ~get(cache, key).stale
    THEN [value |-> <<get(cache, key)>>, cache |-> cache]
    ELSE [value |-> <<>>, cache |-> delete(cache, key)]

\* every lookup counts as a hit
trackHitsOnly(value, h, m) == <<h + 1, m>>

\* the wrapper around responseCache.get: if (value) hits++; else misses++
track(value, h, m) == IF value # <<>> THEN <<h + 1, m>> ELSE <<h, m + 1>>

\* the counters are left as they are
clearEntriesOnly(cache, h, m) ==
  [cache |-> <<>>, hits |-> h, misses |-> m,
   returned |-> [cleared |-> Len(cache)]]

\* clear()
clear(cache, h, m) ==
  [cache |-> <<>>, hits |-> 0, misses |-> 0,
   returned |-> [cleared |-> Len(cache)]]

\* getStats(), as far as the counters and the entry count go
getStats(cache, h, m) == [size |-> Len(cache), hits |-> h, misses |-> m]

NewClient(method, url) ==
  [method |-> method, url |-> url, pc |-> "new", wrapped |-> FALSE,
   sawEntry |-> FALSE, xCache |-> "", statusCode |-> 200, body |-> 0,
   json |-> <<>>, bySendError |-> FALSE]

ClientKinds ==
  {NewClient("GET", u) : u \in CachedUrls}
    \cup {NewClient("POST", "/latex?latex=a"),
          NewClient("GET", "/cache-stats"),
          NewClient("POST", "/cache-clear")}

CacheStart ==
  /\ responseCache = <<>>
  /\ hits = 0
  /\ misses = 0
  /\ client \in [Clients -> ClientKinds]
  /\ lookups = <<>>
  /\ lastWrite = [u \in CachedUrls |-> 0]

\* requests are numbered in the order in which they arrive
Arrives(c) ==
  /\ client[c].pc = "new"
  /\ \A d \in Clients : d < c => client[d].pc # "new"

\* the writers of the entries that a cache holds
writers(cache) ==
  [u \in CachedUrls |-> IF has(cache, u) THEN lastWrite[u] ELSE 0]

\* cacheMiddleware(req, res, next), up to next() or to the cached answer
CacheMiddleware(c) ==
  /\ Arrives(c)
  /\ client[c].url \in CachedUrls
  /\ IF client[c].method # "GET"
       THEN /\ client' = [client EXCEPT ![c] = [@ EXCEPT !.pc = "handler"]]
            /\ UNCHANGED <<responseCache, hits, misses, lookups, lastWrite>>
       ELSE LET cached == originalGet(responseCache, client[c].url)
                counted == track(cached.value, hits, misses)
            IN /\ responseCache' = cached.cache
               /\ hits' = counted[1]
               /\ misses' = counted[2]
               /\ lookups' = Append(lookups, cached.value # <<>>)
               /\ lastWrite' = writers(cached.cache)
               /\ client' = [client EXCEPT ![c] =
                    IF cached.value # <<>>
                      THEN [@ EXCEPT !.pc = "done", !.sawEntry = TRUE,
                                     !.xCache = "HIT",
                                     !.body = cached.value[1].buffer]
                      ELSE [@ EXCEPT !.pc = "handler", !.wrapped = TRUE]]

\* every answer is stored
shouldCacheAny(statusCode) == TRUE

\* if (res.statusCode === 200) of the res.send installed by the middleware
shouldCache(statusCode) == statusCode = 200

\* the route handler sends its answer: through the res.send that the
\* middleware installed when there is one; the answer is the handler's
\* result or one made by sendError, which in in-band mode has status 200
Send(c, statusCode) ==
  /\ client[c].pc = "handler"
  /\ \E bySendError \in BOOLEAN :
       /\ statusCode # 200 => bySendError
       /\ client' = [client EXCEPT ![c] =
            [@ EXCEPT !.pc = "done", !.statusCode = statusCode, !.body = c,
                      !.bySendError = bySendError,
                      !.xCache = IF client[c].wrapped THEN "MISS" ELSE ""]]
  /\ IF client[c].wrapped /\ shouldCache(statusCode)
       THEN /\ responseCache' = lruSet(responseCache, client[c].url, Stored(c))
            /\ lastWrite' = [lastWrite EXCEPT ![client[c].url] = c]
       ELSE UNCHANGED <<responseCache, lastWrite>>
  /\ UNCHANGED <<hits, misses, lookups>>

\* GET /cache-stats
CacheStats(c) ==
  /\ Arrives(c)
  /\ client[c].url = "/cache-stats"
  /\ client' = [client EXCEPT ![c] =
       [@ EXCEPT !.pc = "done",
                 !.json = <<getStats(responseCache, hits, misses)>>]]
  /\ UNCHANGED <<responseCache, hits, misses, lookups, lastWrite>>

\* POST /cache-clear
CacheClear(c) ==
  LET after == clear(responseCache, hits, misses)
  IN /\ Arrives(c)
     /\ client[c].url = "/cache-clear"
     /\ responseCache' = after.cache
     /\ hits' = after.hits
     /\ misses' = after.misses
     /\ lookups' = <<>>
     /\ lastWrite' = writers(after.cache)
     /\ client' = [client EXCEPT ![c] =
          [@ EXCEPT !.pc = "done", !.json = <<after.returned>>]]

\* the ttl of the entry of a URL runs out
Expires(u) ==
  /\ has(responseCache, u)
  /\ ~get(responseCache, u).stale
  /\ responseCache' = set(responseCache, u,
                          [get(responseCache, u) EXCEPT !.stale = TRUE])
  /\ UNCHANGED <<hits, misses, client, lookups, lastWrite>>

CacheInit == CacheStart /\ IdleButCache

CacheNext ==
  \/ \E c \in Clients : CacheMiddleware(c) /\ UNCHANGED besidesCache
  \/ \E c \in Clients, statusCode \in Statuses :
       Send(c, statusCode) /\ UNCHANGED besidesCache
  \/ \E c \in Clients : CacheStats(c) /\ UNCHANGED besidesCache
  \/ \E c \in Clients : CacheClear(c) /\ UNCHANGED besidesCache
  \/ \E u \in CachedUrls : Expires(u) /\ UNCHANGED besidesCache

CacheSpec == CacheInit /\ [][CacheNext]_vars


\* ---- properties of the response cache --------------------------------------

Gets == {c \in Clients : client[c].method = "GET" /\ client[c].url \in CachedUrls}

EntriesOf(u) == {i \in 1..Len(responseCache) : responseCache[i][1] = u}

\* the requests whose answer, sent with status 200 after a miss, went into
\* the cache under the URL u
Populated(u) ==
  {d \in Gets : /\ client[d].url = u
                /\ client[d].pc = "done"
                /\ client[d].xCache = "MISS"
                /\ client[d].statusCode = 200}

RECURSIVE count(_, _)
count(seq, b) ==
  IF seq = <<>> THEN 0
  ELSE (IF Head(seq) = b THEN 1 ELSE 0) + count(Tail(seq), b)

\* C17: hits is the number of lookups since the last clear() that returned
\* an entry and misses the number of those that returned none, so that
\* hits + misses is the number of lookups; sending an answer, reading the
\* statistics, a request that is not a GET and the expiry of an entry leave
\* both counters as they are.
C17_CountersCountLookups ==
  /\ hits = count(lookups, TRUE)
  /\ misses = count(lookups, FALSE)
  /\ hits + misses = Len(lookups)

\* lookups have hit and missed, and a request that is not a GET has been
\* answered by its handler
C17_Witness ==
  /\ hits >= 1
  /\ misses >= 1
  /\ \E c \in Clients : client[c].method = "POST" /\ client[c].xCache = ""
                        /\ client[c].url \in CachedUrls
                        /\ client[c].pc = "done"

\* C18: the step in which a request to /cache-clear is answered leaves the
\* cache empty and both counters at 0, and answers with the number of
\* entries held before; there is no state in between that another request
\* could see.
C18_ClearIsOneStep ==
  [][\A c \in Clients :
       (/\ client[c].pc = "new"
        /\ client[c].url = "/cache-clear"
        /\ client'[c].pc = "done")
         => /\ responseCache' = <<>>
            /\ hits' = 0
            /\ misses' = 0
            /\ client'[c].json = <<[cleared |-> Len(responseCache)]>>]_vars

\* a clear() that removed an entry and reset counters, and a later request
\* to /cache-stats that saw the cache empty and both counters at 0
C18_Witness ==
  \E c, d \in Clients :
    /\ c < d
    /\ client[c].url = "/cache-clear" /\ client[c].pc = "done"
    /\ client[c].json = <<[cleared |-> 1]>>
    /\ client[d].url = "/cache-stats" /\ client[d].pc = "done"
    /\ client[d].json = <<[size |-> 0, hits |-> 0, misses |-> 0]>>
    /\ \E e \in Gets : e < c /\ client[e].pc = "done"


(***************************************************************************)
(* The compositor (services/mathJaxConverters.js): combineSvgChunks on the *)
(* metrics of the chunks.  Display sizes are in tenths of an ex, view box  *)
(* coordinates in tenths of a view box unit.                               *)
(***************************************************************************)
MaxChunks == 3

\* marginEx = 0.4, in tenths of an ex
marginEx == 4

\* the attributes width, height and viewBox of the chunks the engine emits
Chunks ==
  [width : {20, 40}, height : {20, 30}, vbMinX : {0}, vbMinY : {-800, -600},
   vbWidth : {1000}, vbHeight : {700, 1000}]

Scales == {1, 2}

Min(a, b) == IF a < b THEN a ELSE b
Max(a, b) == IF a > b THEN a ELSE b

\* cleanAndScaleSvg(svgNode, scale), as far as width and height go
cleanAndScaleSvg(chunk, scale) ==
  IF scale # 1 /\ chunk.width # 0 /\ chunk.height # 0
    THEN [chunk EXCEPT !.width = @ * scale, !.height = @ * scale]
    ELSE chunk

\* the forEach that fills processed: metrics and vbPerEx * marginEx of a
\* chunk, with vbPerEx = vbWidth / displayWidthEx
preprocess(svgChunks, scale) ==
  [i \in 1..Len(svgChunks) |->
     LET c == cleanAndScaleSvg(svgChunks[i], scale)
     IN [displayWidthEx |-> c.width, displayHeightEx |-> c.height,
         vbMinX |-> c.vbMinX, vbMinY |-> c.vbMinY,
         vbWidth |-> c.vbWidth, vbHeight |-> c.vbHeight,
         marginVb |-> IF c.width > 0 THEN (c.vbWidth * marginEx) \div c.width
                                     ELSE marginEx]]

\* processed.reduce((acc, c, i) => acc + c.displayWidthEx + (i ? margin : 0), 0)
RECURSIVE reduceWidthEvery(_, _)
reduceWidthEvery(processed, margin) ==
  IF processed = <<>> THEN 0
  ELSE reduceWidthEvery(SubSeq(processed, 1, Len(processed) - 1), margin)
         + processed[Len(processed)].displayWidthEx + margin

RECURSIVE reduceWidth(_, _)
reduceWidth(processed, margin) ==
  IF processed = <<>> THEN 0
  ELSE reduceWidth(SubSeq(processed, 1, Len(processed) - 1), margin)
         + processed[Len(processed)].displayWidthEx
         + (IF Len(processed) > 1 THEN margin ELSE 0)

\* processed.reduce((m, c) => Math.max(m, c.displayHeightEx), 0)
RECURSIVE reduceHeight(_)
reduceHeight(processed) ==
  IF processed = <<>> THEN 0
  ELSE Max(reduceHeight(Tail(processed)), Head(processed).displayHeightEx)

\* globalMinY and globalMaxY after the forEach, starting from +Infinity and
\* -Infinity, for at least one chunk
RECURSIVE trackMinY(_)
trackMinY(processed) ==
  IF Len(processed) = 1 THEN processed[1].vbMinY
  ELSE Min(trackMinY(Tail(processed)), Head(processed).vbMinY)

RECURSIVE trackMaxY(_)
trackMaxY(processed) ==
  IF Len(processed) = 1 THEN processed[1].vbMinY + processed[1].vbHeight
  ELSE Max(trackMaxY(Tail(processed)),
           Head(processed).vbMinY + Head(processed).vbHeight)

\* xVb after the forEach that places the chunks
RECURSIVE place(_)
place(processed) ==
  IF processed = <<>> THEN 0
  ELSE place(SubSeq(processed, 1, Len(processed) - 1))
         + (IF Len(processed) > 1 THEN processed[Len(processed)].marginVb
                                  ELSE 0)
         + processed[Len(processed)].vbWidth

\* a margin is added for every chunk, the first included
combineSvgChunksEvery(svgChunks, scale) ==
  LET processed == preprocess(svgChunks, scale)
  IN [width |-> reduceWidthEvery(processed, marginEx),
      height |-> reduceHeight(processed),
      viewBox |-> <<0, trackMinY(processed), place(processed),
                    trackMaxY(processed) - trackMinY(processed)>>]

\* combineSvgChunks(svgChunks, scale): the attributes width, height and
\* viewBox of the SVG it returns
combineSvgChunks(svgChunks, scale) ==
  IF Len(svgChunks) = 1
    THEN LET c == cleanAndScaleSvg(svgChunks[1], scale)
         IN [width |-> c.width, height |-> c.height,
             viewBox |-> <<c.vbMinX, c.vbMinY, c.vbWidth, c.vbHeight>>]
    ELSE LET processed == preprocess(svgChunks, scale)
         IN [width |-> reduceWidth(processed, marginEx),
             height |-> reduceHeight(processed),
             viewBox |-> <<0, trackMinY(processed), place(processed),
                           trackMaxY(processed) - trackMinY(processed)>>]

CombineInputs ==
  /\ arg \in [svgChunks : UNION {[1..n -> Chunks] : n \in 1..MaxChunks},
              scale : Scales]
  /\ result = <<>>

Combine ==
  /\ result = <<>>
  /\ result' = <<combineSvgChunks(arg.svgChunks, arg.scale)>>
  /\ UNCHANGED arg

CombineInit == CombineInputs /\ IdleButFunction

CombineNext == Combine /\ UNCHANGED besidesFunction

CombineSpec == CombineInit /\ [][CombineNext]_vars

\* the chunks as they are composed: after cleanAndScaleSvg
Fragments ==
  [i \in 1..Len(arg.svgChunks) |->
     cleanAndScaleSvg(arg.svgChunks[i], arg.scale)]

RECURSIVE SumOfWidths(_)
SumOfWidths(f) ==
  IF f = <<>> THEN 0 ELSE Head(f).width + SumOfWidths(Tail(f))

\* C20: the composite of N >= 2 fragments declares as width the sum of the
\* fragments' declared widths plus N - 1 margins of 0.4ex, as height the
\* greatest declared height, and as view box height the distance from the
\* least minY to the greatest minY + height of the fragments.
C20_CompositeMetrics ==
  (result # <<>> /\ Len(arg.svgChunks) >= 2) =>
    LET N == Len(arg.svgChunks)
        f == Fragments
        out == result[1]
    IN /\ out.width = SumOfWidths(f) + (N - 1) * marginEx
       /\ \E i \in 1..N : out.height = f[i].height
       /\ \A i \in 1..N : out.height >= f[i].height
       /\ \E i, j \in 1..N :
            /\ \A k \in 1..N : f[i].vbMinY <= f[k].vbMinY
            /\ \A k \in 1..N :
                 f[j].vbMinY + f[j].vbHeight >= f[k].vbMinY + f[k].vbHeight
            /\ out.viewBox[2] = f[i].vbMinY
            /\ out.viewBox[4] = f[j].vbMinY + f[j].vbHeight - f[i].vbMinY

\* three fragments of different widths, heights and vertical extents have
\* been composed at scale 2
C20_Witness ==
  /\ result # <<>>
  /\ Len(arg.svgChunks) = 3
  /\ arg.scale = 2
  /\ arg.svgChunks[1].width # arg.svgChunks[2].width
  /\ arg.svgChunks[1].height # arg.svgChunks[3].height
  /\ arg.svgChunks[1].vbMinY # arg.svgChunks[2].vbMinY
  /\ arg.svgChunks[2].vbHeight # arg.svgChunks[3].vbHeight
  /\ result[1].width = 2 * (20 + 40 + 40) + 2 * marginEx

(***************************************************************************)
(* Serving an entry of svgCache (services/mathJaxConverters.js): the       *)
(* chunks of the entry are the nodes the engine emitted, and the entry is  *)
(* served by svgFromTeX, svgFromMathML and svgFromAM                       *)
(***************************************************************************)
MaxServes == 2

\* chunks that differ in their declared sizes
CachedChunks == {c \in Chunks : c.vbMinY = -800 /\ c.vbHeight = 1000}

\* the node of a chunk after cleanAndScaleSvg(chunk, scale): setAttribute
\* writes the scaled width and height to the node itself
nodeAfter(chunk, scale) == cleanAndScaleSvg(chunk, scale)

\* what a request gets out of the entry: the combination for chunkIndex 0,
\* the chunk for 1..count; width and height as declared in the SVG returned
served(chunks, scale, chunkIndex) ==
  IF chunkIndex = 0
    THEN LET out == combineSvgChunks(chunks, scale)
         IN [chunkIndex |-> 0, width |-> out.width, height |-> out.height]
    ELSE LET out == cleanAndScaleSvg(chunks[chunkIndex], scale)
         IN [chunkIndex |-> chunkIndex, width |-> out.width,
             height |-> out.height]

\* the chunks of the entry after it was served
chunksAfter(chunks, scale, chunkIndex) ==
  [i \in 1..Len(chunks) |->
     IF chunkIndex = 0 \/ chunkIndex = i THEN nodeAfter(chunks[i], scale)
                                         ELSE chunks[i]]

\* an entry of svgCache as the engine's output was stored, and the scale of
\* the requests that it is served to
ServeInputs ==
  /\ \E chunks \in UNION {[1..n -> CachedChunks] : n \in 1..MaxChunks},
        scale \in Scales :
       arg = [chunks |-> chunks, stored |-> chunks, scale |-> scale]
  /\ result = <<>>

\* a request finds the entry (cached is not undefined) and is served from it
Serve(chunkIndex) ==
  /\ Len(result) < MaxServes
  /\ chunkIndex \in 0..Len(arg.chunks)
  /\ result' = Append(result, served(arg.chunks, arg.scale, chunkIndex))
  /\ arg' = [arg EXCEPT
               !.chunks = chunksAfter(arg.chunks, arg.scale, chunkIndex)]

ServeInit == ServeInputs /\ IdleButFunction

ServeNext ==
  \E chunkIndex \in 0..MaxChunks : Serve(chunkIndex) /\ UNCHANGED besidesFunction

ServeSpec == ServeInit /\ [][ServeNext]_vars

\* C21: serving an entry of the artifact cache leaves its chunks as they
\* were stored, and requests for the same chunkIndex with the same scale get
\* the same declared width and height every time.
C21_ServingLeavesEntry ==
  /\ arg.chunks = arg.stored
  /\ \A i, j \in 1..Len(result) :
       result[i].chunkIndex = result[j].chunkIndex =>
         /\ result[i].width = result[j].width
         /\ result[i].height = result[j].height

\* ---- insertion into the response cache ---------------------------------------

\* the step writes the entry of u: afterwards the cache holds for u a body
\* that it did not hold before
Written(u) ==
  /\ has(responseCache', u)
  /\ has(responseCache, u) =>
       get(responseCache', u).buffer # get(responseCache, u).buffer

MaxRequests == 3

\* the URLs by the answer that their handler computes
UrlKinds ==
  {[route |-> r, wants |-> w] :
     r \in {"latex", "mathml"}, w \in {"svg", "png", "count"}}
    \cup {[route |-> "asciimath", wants |-> w] : w \in {"svg", "png"}}
    \cup {[route |-> "speechtext", wants |-> "speech"]}

\* res at the time the handler calls res.send: statusCode, the headers set
\* so far ("" when not set), and the data passed to res.send
Answer(statusCode, ctype, cc, type, content) ==
  [statusCode |-> statusCode, ctype |-> ctype, cc |-> cc,
   data |-> [type |-> type, content |-> content]]

\* the answer of the handler of u when everything succeeds: res.json sets
\* Content-Type and passes the JSON text to res.send
handlerAnswer(u) ==
  CASE u.wants = "svg" ->
         Answer(200, "image/svg+xml", "public, max-age=86400", "string", "svg")
    [] u.wants = "png" ->
         Answer(200, "image/png", "public, max-age=86400", "Buffer", "png")
    [] u.wants = "count" ->
         Answer(200, "application/json", "", "string", "chunkCount")
    [] u.wants = "speech" ->
         Answer(200, "text/plain; charset=utf-8", "public, max-age=86400",
                "string", "speech")

\* the answer made by sendError(req, res, status, ...)
sendErrorAnswer(flag, u, status) ==
  IF flag
    THEN IF u.route = "speechtext"
           THEN Answer(200, "text/plain",
                       "no-cache, no-store, must-revalidate", "string",
                       "Error: ")
           ELSE Answer(200, "image/svg+xml",
                       "no-cache, no-store, must-revalidate", "string",
                       "errorSvg")
    ELSE Answer(status, "application/json", "", "string", "error")

\* Buffer.isBuffer(data) ? data : Buffer.from(data)
toBuffer(data) == [type |-> "Buffer", content |-> data.content]

\* the value passed to responseCache.set by the replaced res.send
entryOf(a) ==
  [buffer |-> toBuffer(a.data),
   headers |-> [ctype |-> IF a.ctype = "" THEN "application/octet-stream"
                                          ELSE a.ctype,
                cc |-> IF a.cc = "" THEN "public, max-age=86400" ELSE a.cc]]

\* what goes out after a miss: the answer with X-Cache: MISS
missResponse(a) ==
  [xCache |-> "MISS", status |-> a.statusCode, ctype |-> a.ctype,
   cc |-> a.cc, body |-> a.data.content]

\* what goes out after a hit: the stored headers, X-Cache: HIT, and the
\* stored buffer, with the status of a fresh res
hitResponse(e) ==
  [xCache |-> "HIT", status |-> 200, ctype |-> e.headers.ctype,
   cc |-> e.headers.cc, body |-> e.buffer.content]

ReplayInputs ==
  /\ \E u \in UrlKinds, flag \in BOOLEAN :
       arg = [url |-> u, flag |-> flag, entry |-> <<>>, from |-> 0]
  /\ result = <<>>

\* a GET request for the URL: answered from the entry when there is one,
\* else by the handler (ok) or by sendError with the given status, through
\* the replaced res.send
Get(ok, status) ==
  /\ Len(result) < MaxRequests
  /\ IF arg.entry # <<>>
       THEN /\ result' = Append(result, hitResponse(arg.entry[1]))
            /\ UNCHANGED arg
       ELSE LET a == IF ok THEN handlerAnswer(arg.url)
                           ELSE sendErrorAnswer(arg.flag, arg.url, status)
            IN /\ result' = Append(result, missResponse(a))
               /\ arg' = IF shouldCache(a.statusCode)
                           THEN [arg EXCEPT !.entry = <<entryOf(a)>>,
                                            !.from = Len(result) + 1]
                           ELSE arg

\* the ttl of the entry runs out
EntryExpires ==
  /\ arg.entry # <<>>
  /\ Len(result) < MaxRequests
  /\ arg' = [arg EXCEPT !.entry = <<>>, !.from = 0]
  /\ UNCHANGED result

ReplayInit == ReplayInputs /\ IdleButFunction

ReplayNext ==
  \/ \E ok \in BOOLEAN, status \in {400, 500, 504} :
       Get(ok, status) /\ UNCHANGED besidesFunction
  \/ EntryExpires /\ UNCHANGED besidesFunction

ReplaySpec == ReplayInit /\ [][ReplayNext]_vars

\* C31: an answer with X-Cache: HIT has the status, the body, the
\* Content-Type and the Cache-Control of the X-Cache: MISS answer that wrote
\* the entry it was served from.
C31_HitEqualsMiss ==
  \A i \in 1..Len(result) :
    (result[i].xCache = "HIT" /\ arg.from # 0 /\ arg.from < i
       /\ \A k \in (arg.from + 1)..i : result[k].xCache = "HIT") =>
      /\ result[i].status = result[arg.from].status
      /\ result[i].body = result[arg.from].body
      /\ result[i].ctype = result[arg.from].ctype
      /\ result[i].cc = result[arg.from].cc

(***************************************************************************)
(* svgCache in front of the engine manager: svgFromTeX and                 *)
(* getSvgCountForTeX called one after another (services/mathJaxConverters) *)
(***************************************************************************)
MaxRenderCalls == 3

\* the TeX inputs: formula 1 requires no package, formula 2 requires cancel
TexInputs == <<[fid |-> 1, packages |-> <<>>],
               [fid |-> 2, packages |-> <<"cancel">>]>>

\* what the engine manager and the cache are after a call, and what the call
\* did: ensured (ensureMathJaxReady was called), rendered (tex2svgPromise
\* was called)
Outcome(signature, instance, all, cache, ensured, rendered) ==
  [signature |-> signature, instance |-> instance, all |-> all,
   cache |-> cache, ensured |-> ensured, rendered |-> rendered]

\* ensureMathJaxReady(tex) and MathJax.tex2svgPromise(...) on a cache miss;
\* the startup of a new instance succeeds (started) or is rejected
renderAndStore(signature, instance, all, cache, key, packages, started) ==
  IF needsMathJaxReset(signature, packages)
    THEN IF started
           THEN Outcome(onReady(signature, packages), Len(all) + 1,
                        Append(all, [packages |-> packages,
                                     status |-> "ready",
                                     heldAtStart |-> FALSE,
                                     heldAtEnd |-> FALSE]),
                        cache \cup {key}, TRUE, TRUE)
           ELSE Outcome(signature, Len(all) + 1,
                        Append(all, [packages |-> packages,
                                     status |-> "failed",
                                     heldAtStart |-> FALSE,
                                     heldAtEnd |-> FALSE]),
                        cache, TRUE, FALSE)
    ELSE Outcome(signature, instance, all, cache \cup {key}, TRUE, TRUE)

\* the readiness check made before the cache is looked up
cachedOrRenderEager(signature, instance, all, cache, key, packages, started) ==
  renderAndStore(signature, instance, all, cache, key, packages, started)

\* let cached = svgCache.get(cacheKey); if (!cached) { ... }
cachedOrRender(signature, instance, all, cache, key, packages, started) ==
  IF key \in cache
    THEN Outcome(signature, instance, all, cache, FALSE, FALSE)
    ELSE renderAndStore(signature, instance, all, cache, key, packages,
                        started)

\* the server after the module-load initialization has completed
ArtifactStart ==
  /\ svgCache = {}
  /\ currentPackageSignature = <<"default">>
  /\ MathJax = 1
  /\ inits = <<[packages |-> <<>>, status |-> "ready",
                heldAtStart |-> FALSE, heldAtEnd |-> FALSE]>>
  /\ job = <<>>
  /\ overlapped = FALSE
  /\ inBand = TRUE
  /\ req = [i \in Reqs |-> BaseQuery("latex")]
  /\ pc = [i \in Reqs |-> "absent"]
  /\ mathJaxLock = Mutex
  /\ imageConverterLock = Mutex
  /\ wEng = [i \in Reqs |-> NotStarted]
  /\ wConv = [i \in Reqs |-> NotStarted]
  /\ res = [i \in Reqs |-> NewRes]
  /\ newSvg = [i \in Reqs |-> "undefined"]

\* svgFromTeX(tex, options) (countOnly FALSE) or getSvgCountForTeX(tex, options)
\* (countOnly TRUE) for input t, run to its end; job is the list of the calls
RenderCall(t, countOnly, started) ==
  LET key == generateSvgCacheKey([route |-> "latex", fid |-> TexInputs[t].fid],
                                 countOnly)
      out == cachedOrRender(currentPackageSignature, MathJax, inits, svgCache,
                            key, TexInputs[t].packages, started)
  IN /\ Len(job) < MaxRenderCalls
     /\ started \/ (key \notin svgCache
                      /\ needsMathJaxReset(currentPackageSignature,
                                           TexInputs[t].packages))
     /\ currentPackageSignature' = out.signature
     /\ MathJax' = out.instance
     /\ inits' = out.all
     /\ svgCache' = out.cache
     /\ job' = Append(job, [input |-> t, count |-> countOnly,
                            hit |-> key \in svgCache,
                            ensured |-> out.ensured,
                            rendered |-> out.rendered])
     /\ UNCHANGED <<mutexVars, timeoutVars, functionVars, cacheVars,
                    overlapped, inBand, req, pc, mathJaxLock,
                    imageConverterLock, wEng, wConv, res, newSvg>>

ArtifactInit ==
  ArtifactStart /\ MutexIdle /\ TimeoutIdle /\ FunctionIdle /\ CacheIdle

ArtifactNext ==
  \E t \in 1..Len(TexInputs), countOnly \in BOOLEAN, started \in BOOLEAN :
    RenderCall(t, countOnly, started)

ArtifactSpec == ArtifactInit /\ [][ArtifactNext]_vars

\* C32: a call that finds its key in svgCache makes no readiness check, starts
\* no initialization and makes no rendering call, and leaves the loaded
\* signature, global.MathJax and the cache as they are, whatever packages its
\* input requires.
C32_HitLeavesEngine ==
  [][\A t \in 1..Len(TexInputs), countOnly \in BOOLEAN :
       (/\ Len(job') = Len(job) + 1
        /\ job'[Len(job')].input = t
        /\ job'[Len(job')].count = countOnly
        /\ generateSvgCacheKey([route |-> "latex", fid |-> TexInputs[t].fid],
                               countOnly) \in svgCache) =>
         /\ ~job'[Len(job')].ensured
         /\ ~job'[Len(job')].rendered
         /\ currentPackageSignature' = currentPackageSignature
         /\ inits' = inits
         /\ MathJax' = MathJax
         /\ svgCache' = svgCache]_vars

\* the last call found its artifact in the cache while the loaded signature
\* was not the one its input requires, and the signature is still the other
\* one
C32_Witness ==
  /\ Len(job) >= 3
  /\ job[Len(job)].hit
  /\ ~job[Len(job)].ensured
  /\ needsMathJaxReset(currentPackageSignature,
                       TexInputs[job[Len(job)].input].packages)
  /\ Len(inits) >= 3

(***************************************************************************)
(* The package signature of a TeX string: extractRequiredPackages and      *)
(* createPackageSignature (services/mathJaxConverters)                     *)
(***************************************************************************)
MaxRequires == 2

\* what stands between the braces of a \require{...} command, in the order
\* of the code units that Array.prototype.sort compares
RequireArguments == <<" cancel", "cancel", "color">>

\* match[1].trim()
trimName(name) == IF name = " cancel" THEN "cancel" ELSE name

\* the place of a trimmed name in the order of sort()
nameRank(name) ==
  CHOOSE k \in 1..Len(RequireArguments) : RequireArguments[k] = name

\* one step of sorting: name put into a sorted list, after its equals
RECURSIVE insertSorted(_, _)
insertSorted(sorted, name) ==
  IF sorted = <<>> THEN <<name>>
  ELSE IF nameRank(name) < nameRank(Head(sorted))
    THEN <<name>> \o sorted
    ELSE <<Head(sorted)>> \o insertSorted(Tail(sorted), name)

\* packages.sort()
RECURSIVE sortNames(_)
sortNames(packages) ==
  IF packages = <<>> THEN <<>>
  ELSE insertSorted(sortNames(Tail(packages)), Head(packages))

\* extractRequiredPackages(tex), for a text with the given \require
\* arguments in this order
extractRequiredPackages(requires) ==
  sortNames([k \in 1..Len(requires) |-> trimName(requires[k])])

\* the package names that a text requires
Required(requires) == {trimName(requires[k]) : k \in 1..Len(requires)}

RequireLists ==
  UNION {[1..n -> {RequireArguments[k] : k \in 1..Len(RequireArguments)}] :
           n \in 0..MaxRequires}

SignatureInputs ==
  /\ arg \in [a : RequireLists, b : RequireLists]
  /\ result = <<>>

\* the signatures of the two texts
Signatures ==
  /\ result = <<>>
  /\ result' =
       <<[a |-> createPackageSignature(extractRequiredPackages(arg.a)),
          b |-> createPackageSignature(extractRequiredPackages(arg.b))]>>
  /\ UNCHANGED arg

SignatureInit == SignatureInputs /\ IdleButFunction

SignatureNext == Signatures /\ UNCHANGED besidesFunction

SignatureSpec == SignatureInit /\ [][SignatureNext]_vars

\* C33: two texts that require the same set of packages, in whatever order
\* and however often, have the same signature, and a text that requires
\* nothing has the signature 'default'.
C33_SignatureOfPackageSet ==
  result # <<>> =>
    /\ Required(arg.a) = Required(arg.b) => result[1].a = result[1].b
    /\ Required(arg.a) = {} => result[1].a = <<"default">>

(***************************************************************************)
(* generateSpeechWithMathCAT and its record of the preferences last set    *)
(* (services/speechGenerators)                                             *)
(***************************************************************************)
MaxSpeechCalls == 3

\* the options that pass validateSpeechOptions for mathcat, with two
\* languages
MathcatOptions ==
  {[style |-> s, verbosity |-> v, lang |-> l] :
     s \in {"ClearSpeak"}, v \in {"Verbose"}, l \in {"en", "de"}}
    \cup {[style |-> s, verbosity |-> v, lang |-> l] :
            s \in {"SimpleSpeak"}, v \in {"Verbose", "Terse"},
            l \in {"en", "de"}}

\* the setters in the order in which they are called
Preferences == <<"style", "verbosity", "lang">>

\* currentMathcatOptions = {}: every field is undefined
NoOptions ==
  [style |-> "undefined", verbosity |-> "undefined", lang |-> "undefined"]

\* the preferences of the engine after the setters of the fields before
\* place stop were called for options: a setter is called when the recorded
\* value differs
RECURSIVE applied(_, _, _, _)
applied(engine, recorded, options, stop) ==
  IF stop = 1 THEN engine
  ELSE LET f == Preferences[stop - 1]
           before == applied(engine, recorded, options, stop - 1)
       IN IF recorded[f] # options[f] THEN [before EXCEPT ![f] = options[f]]
                                      ELSE before

\* currentMathcatOptions after the call: the assignment is reached only
\* when no setter has thrown
recordedAfter(recorded, options, threwAt) ==
  IF threwAt = 0 THEN options ELSE recorded

MathcatStart ==
  /\ arg = [recorded |-> NoOptions,
            engine |-> [style |-> "ClearSpeak", verbosity |-> "Medium",
                        lang |-> "en"],
            calls |-> 0]
  /\ result = <<>>

\* generateSpeechWithMathCAT(mathml, options): threwAt is the place of the
\* setter that throws (0: none); a setter that is skipped cannot throw, and
\* getSpeechTextFromMathcat may fail, which returns null
GenerateSpeech(options, threwAt, spoken) ==
  /\ arg.calls < MaxSpeechCalls
  /\ threwAt # 0 => /\ arg.recorded[Preferences[threwAt]]
                         # options[Preferences[threwAt]]
                    /\ ~spoken
  /\ arg' = [recorded |-> recordedAfter(arg.recorded, options, threwAt),
             engine |-> applied(arg.engine, arg.recorded, options,
                                IF threwAt = 0 THEN Len(Preferences) + 1
                                               ELSE threwAt),
             calls |-> arg.calls + 1]
  /\ result' = <<[options |-> options, threwAt |-> threwAt,
                  spoken |-> spoken,
                  skipped |-> {f \in {"style", "verbosity", "lang"} :
                                 arg.recorded[f] = options[f]},
                  engineBefore |-> arg.engine]>>

MathcatInit == MathcatStart /\ IdleButFunction

MathcatNext ==
  \E options \in MathcatOptions, threwAt \in 0..Len(Preferences),
     spoken \in BOOLEAN :
    GenerateSpeech(options, threwAt, spoken) /\ UNCHANGED besidesFunction

MathcatSpec == MathcatInit /\ [][MathcatNext]_vars

\* C34: after every call, each recorded preference is the one the engine
\* has, and a setter was skipped only for a value the engine already had.
C34_MemoNeverStale ==
  /\ \A f \in {"style", "verbosity", "lang"} :
       arg.recorded[f] # "undefined" => arg.recorded[f] = arg.engine[f]
  /\ result # <<>> =>
       \A f \in result[1].skipped :
         result[1].engineBefore[f] = result[1].options[f]

(***************************************************************************)
(* generateSpeechWithSRE called by overlapping /speechtext requests        *)
(* (services/speechGenerators)                                             *)
(***************************************************************************)
NumSpeakers == 2
Speakers == 1..NumSpeakers

\* the options that pass validateSpeechOptions for sre, with two languages
SreRequestOptions ==
  {[style |-> "ClearSpeak", verbosity |-> v, lang |-> l] :
     v \in {"Auto", "Explicit"}, l \in {"en", "de"}}
    \cup {[style |-> "MathSpeak", verbosity |-> v, lang |-> l] :
            v \in {"Verbose", "Brief"}, l \in {"en", "de"}}

\* config.speech.SREClearSpeakExplicitPrefs
SREClearSpeakExplicitPrefs == "Fraction_GeneralEndFrac:Roots_RootEnd:Paren_Speak"

\* the SREOptions object built from the options of a request
SREOptions(options) ==
  [domain |-> options.style,
   style |-> IF options.style = "ClearSpeak"
               THEN IF options.verbosity = "Explicit"
                      THEN SREClearSpeakExplicitPrefs
                      ELSE ""
               ELSE options.verbosity,
   locale |-> options.lang,
   markup |-> "none",
   modality |-> "speech"]

\* the engine before the first setupEngine, and the requests that are about
\* to call generateSpeechWithSRE
SreStart ==
  /\ arg \in [engine : {"defaults"},
              speaker : [Speakers ->
                           [options : SreRequestOptions, pc : {"new"},
                            spokenWith : {"none"}]]]
  /\ result = <<>>

\* the function up to await SRE.engineReady()
AwaitEngineReady(s) ==
  /\ arg.speaker[s].pc = "new"
  /\ arg' = [arg EXCEPT !.speaker[s].pc = "ready"]
  /\ UNCHANGED result

\* the continuation: SRE.setupEngine(SREOptions) is called, which sets the
\* engine's features, and its promise is awaited
SetupEngine(s) ==
  /\ arg.speaker[s].pc = "ready"
  /\ arg' = [arg EXCEPT !.engine = SREOptions(arg.speaker[s].options),
                        !.speaker[s].pc = "setup"]
  /\ UNCHANGED result

\* the continuation: SRE.toSpeech(mml) with the engine as it is then
ToSpeech(s) ==
  /\ arg.speaker[s].pc = "setup"
  /\ arg' = [arg EXCEPT !.speaker[s].pc = "done",
                        !.speaker[s].spokenWith = arg.engine]
  /\ UNCHANGED result

SreInit == SreStart /\ IdleButFunction

SreNext ==
  \/ \E s \in Speakers : AwaitEngineReady(s) /\ UNCHANGED besidesFunction
  \/ \E s \in Speakers : SetupEngine(s) /\ UNCHANGED besidesFunction
  \/ \E s \in Speakers : ToSpeech(s) /\ UNCHANGED besidesFunction

SreSpec == SreInit /\ [][SreNext]_vars

\* C35: the speech text of every request is generated while the engine is
\* set up with the options of that request.
C35_SpeechWithOwnOptions ==
  \A s \in Speakers :
    arg.speaker[s].pc = "done" =>
      arg.speaker[s].spokenWith = SREOptions(arg.speaker[s].options)

(***************************************************************************)
(* The compositor, placement: the translate(x, y) that combineSvgChunks    *)
(* gives to the content of each chunk.                                     *)
(***************************************************************************)
\* the SVG of an empty formula: width="0" height="0" viewBox="0 0 0 0"
EmptyChunk ==
  [width |-> 0, height |-> 0, vbMinX |-> 0, vbMinY |-> 0, vbWidth |-> 0,
   vbHeight |-> 0]

PlacedChunks == Chunks \cup {EmptyChunk}

\* the margin is converted with the scale of the chunk before
placementsPrevious(processed) ==
  [i \in 1..Len(processed) |->
     [x |-> place(SubSeq(processed, 1, i - 1))
              + (IF i > 1 THEN processed[i - 1].marginVb ELSE 0),
      y |-> processed[i].vbMinY - trackMinY(processed),
      content |-> i]]

\* placements after the forEach that places the chunks; the content of a
\* chunk is named by the index of the chunk it was cut from
placements(processed) ==
  [i \in 1..Len(processed) |->
     [x |-> place(SubSeq(processed, 1, i - 1))
              + (IF i > 1 THEN processed[i].marginVb ELSE 0),
      y |-> processed[i].vbMinY - trackMinY(processed),
      content |-> i]]

PlaceInputs ==
  /\ arg \in [svgChunks : UNION {[1..n -> PlacedChunks] : n \in 1..MaxChunks},
              scale : Scales]
  /\ result = <<>>

\* combineSvgChunks(svgChunks, scale): the attributes of the SVG and the
\* <g transform="translate(x, y)"> elements in it; a single chunk takes the
\* fast path and is not placed
Place ==
  /\ result = <<>>
  /\ result' =
       <<[svg |-> combineSvgChunks(arg.svgChunks, arg.scale),
          g |-> IF Len(arg.svgChunks) = 1 THEN <<>>
                ELSE placements(preprocess(arg.svgChunks, arg.scale))]>>
  /\ UNCHANGED arg

PlaceInit == PlaceInputs /\ IdleButFunction

PlaceNext == Place /\ UNCHANGED besidesFunction

PlaceSpec == PlaceInit /\ [][PlaceNext]_vars

\* the sum of the bounding box widths of the first n fragments
RECURSIVE BoxWidths(_, _)
BoxWidths(f, n) == IF n = 0 THEN 0 ELSE BoxWidths(f, n - 1) + f[n].vbWidth

\* the margins of the fragments 2..n, each converted with the scale factor
\* bounding box width / declared width of its fragment
RECURSIVE OwnMargins(_, _)
OwnMargins(f, n) ==
  IF n <= 1 THEN 0
  ELSE OwnMargins(f, n - 1) + (f[n].vbWidth * marginEx) \div f[n].width

\* C36: N >= 2 fragments are emitted in input order; fragment i is moved
\* right by the bounding box widths of the fragments before it plus the
\* margins of the fragments 2..i, each margin of 0.4ex converted with the
\* scale factor of its own fragment, and down by its own minY minus the
\* least minY of all fragments.
C36_Placement ==
  (/\ result # <<>>
   /\ Len(arg.svgChunks) >= 2
   /\ \A i \in 1..Len(arg.svgChunks) : arg.svgChunks[i].width > 0) =>
    LET N == Len(arg.svgChunks)
        f == Fragments
        g == result[1].g
    IN /\ Len(g) = N
       /\ \A i \in 1..N :
            /\ g[i].content = i
            /\ g[i].x = BoxWidths(f, i - 1) + OwnMargins(f, i)
            /\ \E k \in 1..N :
                 /\ \A j \in 1..N : f[k].vbMinY <= f[j].vbMinY
                 /\ g[i].y = f[i].vbMinY - f[k].vbMinY

\* three fragments of different declared widths and different minY have
\* been placed at scale 2
C36_Witness ==
  /\ result # <<>>
  /\ Len(arg.svgChunks) = 3
  /\ arg.scale = 2
  /\ arg.svgChunks[1].width = 20
  /\ arg.svgChunks[2].width = 40
  /\ arg.svgChunks[3].width = 20
  /\ arg.svgChunks[2].vbMinY < arg.svgChunks[3].vbMinY
  /\ result[1].g[3].x = 1000 + 50 + 1000 + 100
  /\ result[1].g[3].y = 200

\* C37: a fragment of declared width zero has the scale factor 1, and adds
\* no margin before the fragment after it, neither to the declared width of
\* the composite nor to the horizontal offset of the fragment after it.
C37_ZeroWidthNoMargin ==
  (result # <<>> /\ Len(arg.svgChunks) >= 2) =>
    LET N == Len(arg.svgChunks)
        f == Fragments
        g == result[1].g
        zero == {k \in 1..(N - 1) : f[k].width = 0}
    IN /\ \A i \in zero :
            /\ (i > 1 /\ f[i - 1].width # 0) =>
                 g[i].x = g[i - 1].x + f[i - 1].vbWidth + 1 * marginEx
            /\ g[i + 1].x = g[i].x + f[i].vbWidth
       /\ result[1].svg.width =
            SumOfWidths(f) + (N - 1 - Cardinality(zero)) * marginEx

\* C38: every one of N >= 2 fragments, moved to its place, lies inside the
\* view box of the composite (x from 0 to the total placed width, y from
\* the least minY to the greatest minY + height), and no two fragments
\* overlap horizontally.  Stated for fragments that are not empty.
C38_ViewBoxCoversFragments ==
  (/\ result # <<>>
   /\ Len(arg.svgChunks) >= 2
   /\ \A i \in 1..Len(arg.svgChunks) : arg.svgChunks[i].width > 0) =>
    LET N == Len(arg.svgChunks)
        f == Fragments
        g == result[1].g
        viewBox == result[1].svg.viewBox
        left(i) == g[i].x + f[i].vbMinX
        right(i) == g[i].x + f[i].vbMinX + f[i].vbWidth
        top(i) == g[i].y + f[i].vbMinY
        bottom(i) == g[i].y + f[i].vbMinY + f[i].vbHeight
    IN /\ \A i \in 1..N :
            /\ viewBox[1] <= left(i)
            /\ right(i) <= viewBox[1] + viewBox[3]
            /\ viewBox[2] <= top(i)
            /\ bottom(i) <= viewBox[2] + viewBox[4]
       /\ \A i, j \in 1..N : i < j => right(i) <= left(j)

(***************************************************************************)
(* The compositor, <defs>: the de-duplication of the definitions of the    *)
(* chunks in combineSvgChunks.  The content of a <defs> is a sequence of   *)
(* elements that are not nested; an element is its tag, its id ("none"     *)
(* without one), its form (<tag ...></tag> or <tag .../>) and the rest of  *)
(* its text, a sequence of characters.                                     *)
(***************************************************************************)
MaxDefs == 2

NumDefsChunks == 2

\* linearGradient|clipPath|style|mask|filter
Structural == {"linearGradient", "clipPath", "style", "mask", "filter"}

DefsElements ==
  {e \in [tag : {"path", "clipPath"}, id : {"none", "a"},
          form : {"paired", "selfClosing"},
          body : {<<"d">>, <<"d", " ">>, <<"d", " ", " ">>}] :
     ~(e.tag = "path" /\ e.id = "none")}

\* the <style> with svgCss that opens the <defs> of the composite
svgCss ==
  [tag |-> "style", id |-> "none", form |-> "paired", body |-> <<"svgCss">>]

\* el.replace(/\s+/g, ' ').trim() on the text of an element, which starts
\* with < and ends with >
RECURSIVE collapse(_)
collapse(body) ==
  IF Len(body) <= 1 THEN body
  ELSE IF body[1] = " " /\ body[2] = " " THEN collapse(Tail(body))
  ELSE <<body[1]>> \o collapse(Tail(body))

\* the index of the first element after k that has a closing tag, or 0
firstClosing(rawDefs, k) ==
  IF \E m \in (k + 1)..Len(rawDefs) : rawDefs[m].form = "paired"
    THEN CHOOSE m \in (k + 1)..Len(rawDefs) :
           /\ rawDefs[m].form = "paired"
           /\ \A n \in (k + 1)..(m - 1) : rawDefs[n].form # "paired"
    ELSE 0

\* rawDefs.match(/<[^>]+id="[^"]+"[\s\S]*?<\/[^>]+>|<[^>]+id="[^"]+"[^>]*\/>/g)
\* from element k on: a match starts at a tag with an id and, by the first
\* alternative, runs to the first closing tag after it; only when no closing
\* tag follows does the second alternative match the one tag
RECURSIVE els(_, _)
els(rawDefs, k) ==
  IF k > Len(rawDefs) THEN <<>>
  ELSE IF rawDefs[k].id = "none" THEN els(rawDefs, k + 1)
  ELSE IF rawDefs[k].form = "paired" \/ firstClosing(rawDefs, k) = 0
    THEN <<SubSeq(rawDefs, k, k)>> \o els(rawDefs, k + 1)
  ELSE <<SubSeq(rawDefs, k, firstClosing(rawDefs, k))>>
         \o els(rawDefs, firstClosing(rawDefs, k) + 1)

\* rawDefs.match(/<(?:linearGradient|...)\b[\s\S]*?<\/\1>|<(?:...)\b[^>]*\/>/g):
\* the pattern has no capturing group, so \1 is the character U+0001 and the
\* first alternative matches nothing in an SVG
anonEls(rawDefs) ==
  [i \in 1..Len(SelectSeq(rawDefs, LAMBDA e :
                            e.tag \in Structural /\ e.form = "selfClosing")) |->
     <<SelectSeq(rawDefs, LAMBDA e :
                   e.tag \in Structural /\ e.form = "selfClosing")[i]>>]

\* if (!defsById.has(key)) defsById.set(key, el)
setOnce(defsById, key, el) ==
  IF \E i \in 1..Len(defsById) : defsById[i].key = key THEN defsById
  ELSE Append(defsById, [key |-> key, el |-> el])

\* for (const el of els) ... with key the first id in el
RECURSIVE setById(_, _)
setById(defsById, matches) ==
  IF matches = <<>> THEN defsById
  ELSE setById(setOnce(defsById, <<"id", Head(matches)[1].id>>, Head(matches)),
               Tail(matches))

\* for (const el of anonEls) ... with key 'anon:' + the normalised text
RECURSIVE setAnon(_, _)
setAnon(defsById, matches) ==
  IF matches = <<>> THEN defsById
  ELSE setAnon(setOnce(defsById,
                       <<"anon", Head(matches)[1].tag, Head(matches)[1].id,
                         collapse(Head(matches)[1].body)>>,
                       Head(matches)),
               Tail(matches))

\* the forEach over the chunks, as far as defsById goes
RECURSIVE collectDefs(_, _)
collectDefs(defsById, svgChunks) ==
  IF svgChunks = <<>> THEN defsById
  ELSE collectDefs(
         IF Head(svgChunks) = <<>> THEN defsById
         ELSE setAnon(setById(defsById, els(Head(svgChunks), 1)),
                      anonEls(Head(svgChunks))),
         Tail(svgChunks))

RECURSIVE values(_)
values(defsById) ==
  IF defsById = <<>> THEN <<>>
  ELSE Head(defsById).el \o values(Tail(defsById))

\* <defs><style>${svgCss}</style> and then every value of defsById
defsOf(svgChunks) == <<svgCss>> \o values(collectDefs(<<>>, svgChunks))

\* two or more chunks, each given by the content of its <defs>
DefsInputs ==
  /\ arg \in [svgChunks :
                [1..NumDefsChunks ->
                   UNION {[1..n -> DefsElements] : n \in 0..MaxDefs}]]
  /\ result = <<>>

MergeDefs ==
  /\ result = <<>>
  /\ result' = <<defsOf(arg.svgChunks)>>
  /\ UNCHANGED arg

DefsInit == DefsInputs /\ IdleButFunction

DefsNext == MergeDefs /\ UNCHANGED besidesFunction

DefsSpec == DefsInit /\ [][DefsNext]_vars

\* the definitions of all fragments, in input order
RECURSIVE Declared(_)
Declared(svgChunks) ==
  IF svgChunks = <<>> THEN <<>>
  ELSE Head(svgChunks) \o Declared(Tail(svgChunks))

Normalized(e) == [e EXCEPT !.body = collapse(@)]

\* C39: the definition block of the composite holds, for every identifier
\* that a fragment declares, exactly one element, the first one in input
\* order that declares it, and every structural definition without an
\* identifier once per distinct whitespace-normalized text.
C39_DefsMerged ==
  result # <<>> =>
    LET all == Declared(arg.svgChunks)
        block == Tail(result[1])
    IN /\ \A i \in 1..Len(all) :
            all[i].id # "none" =>
              /\ Cardinality({j \in 1..Len(block) :
                                block[j].id = all[i].id}) = 1
              /\ \E j \in 1..Len(block), k \in 1..Len(all) :
                   /\ block[j] = all[k]
                   /\ all[k].id = all[i].id
                   /\ \A n \in 1..(k - 1) : all[n].id # all[i].id
       /\ \A i \in 1..Len(all) :
            (all[i].id = "none" /\ all[i].tag \in Structural) =>
              Cardinality({j \in 1..Len(block) :
                             /\ block[j].id = "none"
                             /\ Normalized(block[j]) = Normalized(all[i])})
                = 1

\* the part of C39 that the code keeps: paired elements with an identifier
C39_PairedIdentified ==
  (/\ result # <<>>
   /\ \A i \in 1..Len(Declared(arg.svgChunks)) :
        /\ Declared(arg.svgChunks)[i].id # "none"
        /\ Declared(arg.svgChunks)[i].form = "paired"
        /\ Declared(arg.svgChunks)[i].tag = "path") =>
    LET all == Declared(arg.svgChunks)
        block == Tail(result[1])
    IN \A i \in 1..Len(all) :
         /\ Cardinality({j \in 1..Len(block) : block[j].id = all[i].id}) = 1
         /\ \E j \in 1..Len(block), k \in 1..Len(all) :
              /\ block[j] = all[k]
              /\ all[k].id = all[i].id
              /\ \A n \in 1..(k - 1) : all[n].id # all[i].id

====
